---- MODULE Spec2Model ----
(***************************************************************************)
(* A model of the forge indexer: the vector-index adapter (IndexService), *)
(* the chunker, the indexing pipeline and the retrieval API.               *)
(*                                                                         *)
(* The module holds several specifications over one set of variables.     *)
(* Each specification drives one part of the program; the variables of    *)
(* the other parts keep their idle values.                                 *)
(*   SpecNew       IndexService::new against every backend state           *)
(*   SpecRetrieve  the retrieval API handling requests                     *)
(*   SpecChunk     Chunker::chunk_file on a bounded family of files        *)
(*   SpecFiles     IndexingPipeline::process_files and its tasks           *)
(*   SpecFilesFair process_files under a fair scheduler                    *)
(*   SpecEvents    start_watching, the watcher and process_events          *)
(*   SpecIndexer   the event loop raced against the shutdown signal        *)
(*   SpecDirect    process_file called beside process_files                *)
(*   SpecPath      file eligibility and language detection of a path       *)
(*   SpecStore     InMemoryVectorStore: insert, delete and search          *)
(*   SpecColls     InMemoryVectorStore: collections and their dimension    *)
(*   SpecSimple    SimpleChunker::chunk_by_lines, one pass per step        *)
(*   SpecMerge     optimize_chunks on bounded chunk lists                  *)
(*   SpecFilesCli  process_files under the configurations the CLI allows   *)
(*   SpecLocks     the locks of the pipeline: chunker, index, statistics   *)
(*   SpecScan      run_indexer: the initial scan while the watcher sends   *)
(*   SpecKeyword   SearchService over the collection of IndexingService    *)
(* Strings that the code inspects character by character (paths, repo     *)
(* names) are sequences of one-character strings.                          *)
(***************************************************************************)
EXTENDS Integers, Sequences, FiniteSets, TLC

VARIABLES
    coll,       \* the backend's collection: [exists, dim, cfg, points]
    nextPid,    \* number of uuids handed out so far (uuid::Uuid::new_v4)
    \* IndexService::new
    initColl,   \* the collection as it was before start-up (history)
    newPc,      \* position inside IndexService::new
    newDim,     \* vector_dimension handed to IndexService::new
    hits,       \* result of the last search after start-up
    \* retrieval API
    disk,       \* the files validate_proof_of_possession can read
    req,        \* the HttpRetrievalRequest being handled
    rPc,        \* position inside retrieve_handler
    popResult,  \* what validate_proof_of_possession returned for req
    calls,      \* embedder / vector-index calls made for req (history)
    resp,       \* the HTTP response of retrieve_handler
    \* chunker
    cfIn,       \* the arguments of chunk_file: content, lang, parse tree
    cfPc,       \* "ready" before the call of chunk_file, "done" after it
    cfOut,      \* the chunk list chunk_file returned
    \* indexing pipeline
    pcfg,       \* PipelineConfig: batch_size, max_concurrent_files
    permits,    \* available permits of the semaphore of process_files
    nextTask,   \* number of tasks process_files has spawned so far
    wk,         \* per worker: its position inside process_file and its locals
    idxLock,    \* the worker holding index_service.write(), or NoWorker
    stats,      \* PipelineStats
    callPc,     \* what the owner of the pipeline is awaiting
    receiver,   \* pipeline.event_receiver: "none" or "some"
    chan,       \* the watcher's channel: "none", "open" or "closed"
    queue,      \* events sent on the channel and not yet received
    sent,       \* number of events the watchers have sent (history)
    received,   \* the events sent on the current channel (history)
    pePc,       \* position inside process_events
    peResult,   \* what the last call of process_events returned
    evTodo,     \* the paths of the event in hand still to visit
    handled,    \* the events this call of process_events took (history)
    \* eligibility and language of a path
    fpPath,     \* the path handed to should_process_file / get_language_from_path
    fpLang,     \* the result of get_language_from_path for fpPath, once called
    fpOk,       \* the result of should_process_file for fpPath, once called
    \* InMemoryVectorStore
    vsStore,    \* the vectors of the collection: chunk id -> VectorEntry
    vsReq,      \* the arguments of the last search
    vsRes,      \* what the last search returned, none once the store changed
    \* InMemoryVectorStore with several collections
    vcColls,    \* collections: name -> dimension and vectors (id -> VectorEntry)
    vcLast,     \* the last insert or update: its arguments, result, and the entry before
    \* SimpleChunker::chunk_file
    scIn,       \* its arguments: the lengths of the lines of content, and config
    scStart,    \* start_line
    scChunks,   \* chunks, each as its start_line and end_line (1-based, inclusive)
    scIters,    \* number of passes through the outer loop so far (history)
    scPc,       \* position in chunk_file: "loop", "done", or "idle" (no call)
    \* SimilarityCalculator::optimize_chunks
    ocIn,       \* the chunks handed to optimize_chunks
    ocOut,      \* the chunks it returned
    ocPc,       \* "call" before it ran, "done" after, or "idle" (no call)
    \* the locks of IndexingPipeline: chunker, index_service, stats
    lkPc,       \* position of each process_file task and each get_stats / reset_stats call
    lkLeft,     \* batches a process_file task has still to process
    lkChunker,  \* the task holding chunker.write(), or NoHolder
    lkIndex,    \* the task holding index_service.write(), or NoHolder
    lkStatsW,   \* the task or call holding stats.write(), or NoHolder
    lkStatsR    \* the calls holding stats.read()

newVars == <<initColl, newPc, newDim, hits>>
retVars == <<disk, req, rPc, popResult, calls, resp>>
chunkVars == <<cfIn, cfPc, cfOut>>
workVars == <<pcfg, permits, nextTask, wk, idxLock, stats, callPc>>
eventVars == <<receiver, chan, queue, sent, received, pePc, peResult, evTodo, handled>>
pipeVars == <<workVars, eventVars>>
pathVars == <<fpPath, fpLang, fpOk>>
storeVars == <<vsStore, vsReq, vsRes>>
collVars == <<vcColls, vcLast>>
simpleVars == <<scIn, scStart, scChunks, scIters, scPc>>
mergeVars == <<ocIn, ocOut, ocPc>>
lockVars == <<lkPc, lkLeft, lkChunker, lkIndex, lkStatsW, lkStatsR>>
vars == <<coll, nextPid, newVars, retVars, chunkVars, pipeVars, pathVars, storeVars, collVars, simpleVars, mergeVars, lockVars>>

\* what the actions of one part leave alone
restOfNew == <<retVars, chunkVars, pipeVars, pathVars, storeVars, collVars, simpleVars, mergeVars, lockVars>>
restOfRetrieve == <<newVars, chunkVars, pipeVars, pathVars, storeVars, collVars, simpleVars, mergeVars, lockVars>>
restOfChunk == <<coll, nextPid, newVars, retVars, pipeVars, pathVars, storeVars, collVars, simpleVars, mergeVars, lockVars>>
restOfPipe == <<newVars, retVars, chunkVars, pathVars, storeVars, collVars, simpleVars, mergeVars, lockVars>>
restOfPath == <<coll, nextPid, newVars, retVars, chunkVars, pipeVars, storeVars, collVars, simpleVars, mergeVars, lockVars>>
restOfStore == <<coll, nextPid, newVars, retVars, chunkVars, pipeVars, pathVars, collVars, simpleVars, mergeVars, lockVars>>
restOfColls == <<coll, nextPid, newVars, retVars, chunkVars, pipeVars, pathVars, storeVars, simpleVars, mergeVars, lockVars>>
restOfSimple == <<coll, nextPid, newVars, retVars, chunkVars, pipeVars, pathVars, storeVars, collVars, mergeVars, lockVars>>
restOfMerge == <<coll, nextPid, newVars, retVars, chunkVars, pipeVars, pathVars, storeVars, collVars, simpleVars, lockVars>>
restOfLocks == <<coll, nextPid, newVars, retVars, chunkVars, pipeVars, pathVars, storeVars, collVars, simpleVars, mergeVars>>

(***************************************************************************)
(* Bounds                                                                  *)
(***************************************************************************)
\* number of fresh uuids after which the model starts no new work
MaxUuids == 2

\* number of tasks process_files spawns, over all its calls
MaxTasks == 3

\* largest max_concurrent_files of a PipelineConfig
MaxConcurrent == 2

\* number of events the file watchers send
MaxEvents == 2

(***************************************************************************)
(* The vector-index backend (Qdrant) as IndexService uses it               *)
(***************************************************************************)
\* embedding dimensions an embedder may report
Dims == {384, 768, 1536}

\* how collection_info reports the vectors configuration of a collection:
\* "params" is VectorConfig::Params(size), "named" is any other variant of
\* vectors_config.config, "none" is a missing config / params / vectors_config
CfgKinds == {"params", "named", "none"}

\* point ids of points stored before this process started
StalePids == {101, 102}

NoHits == [done |-> FALSE, points |-> {}]

NoColl == [exists |-> FALSE, dim |-> 0, cfg |-> "none", points |-> {}]

\* a point of the collection: its id and the payload fields the code reads
\* (process_chunk_batch builds the payload; "ok" is FALSE for a payload that
\* lacks one of the fields payload_to_chunk requires)
Point(pid, path, rev, code, vec, ok) ==
    [pid |-> pid, path |-> path, rev |-> rev, branch |-> rev, code |-> code,
     vec |-> vec, ok |-> ok]

StalePoint(pid) == Point(pid, <<"o", "/", "b">>, "R0", pid, pid - 100, TRUE)

\* create_collection: a collection of the given dimension, cosine, no points
FreshColl_fixedSize(d) == [exists |-> TRUE, dim |-> 1536, cfg |-> "params", points |-> {}]
FreshColl(d) == [exists |-> TRUE, dim |-> d, cfg |-> "params", points |-> {}]

\* index_svc.rs:84, the test that decides to recreate
DimensionMismatch_never(size, d) == FALSE
DimensionMismatch(size, d) == size # d

(***************************************************************************)
(* The chunker (Chunker::chunk_file).  A file's content is a sequence of   *)
(* lines; a line is its byte length, whether it is blank or a comment, and *)
(* the keyword and identifier tokens the similarity functions extract from *)
(* it.  The parse tree (tree-sitter's) is an input: the symbol nodes       *)
(* chunk_by_definitions meets, as line ranges in pre-order, and the lines  *)
(* whose ends are semantic boundaries.                                     *)
(***************************************************************************)
max_chunk_size == 2000

min_chunk_size == 100

\* fallback_chunking: lines per window, and how far into the window the
\* search for a natural boundary starts
WindowLines == 50

SnapFrom == 30

\* subdivide_large_chunk: lines per sub-chunk
SubdivideLines == 50

\* optimize_chunks: the size below which a chunk looks for a merge, and the
\* two ceilings on the combined size
MergeBelow == 100

MergeSumAny == 3000

MergeSumMax == 5000

\* extract_context_chunks: least span of a boundary chunk
ContextMinSpan == 100

\* languages ParserManager::new registers a parser for
ParserLangs == {"rust", "python", "javascript", "typescript", "go", "java", "cpp", "c"}

has_parser(lang) == lang \in ParserLangs

None == "None"

Min(a, b) == IF a <= b THEN a ELSE b

Max(a, b) == IF a >= b THEN a ELSE b

Range(s) == {s[i] : i \in DOMAIN s}

SetMax(S) == CHOOSE x \in S : \A y \in S : y <= x

RECURSIVE SumLen(_, _, _)
\* bytes of lines[a..b] joined by "\n" (1-based, inclusive; 0 when empty)
SumLen(lines, a, b) ==
    IF a > b THEN 0
    ELSE IF a = b THEN lines[a].len
    ELSE LET mid == (a + b) \div 2
         IN  SumLen(lines, a, mid) + 1 + SumLen(lines, mid + 1, b)

\* byte offset at which line i starts
LineStart(lines, i) == IF i = 1 THEN 0 ELSE SumLen(lines, 1, i - 1) + 1

\* byte offset just after the text of line i
LineEnd(lines, i) == SumLen(lines, 1, i)

\* content.len(): the lines, the newlines between them, the final newline
ContentLen(content) == SumLen(content.lines, 1, Len(content.lines)) + content.nl

\* the tokens of lines[a..b]
Keywords(lines, a, b) == UNION {lines[i].kw : i \in a..b}

Symbols(lines, a, b) == UNION {lines[i].sy : i \in a..b}

\* the lines a..b of a file as a chunk (code = those lines joined by "\n")
LinesChunk(id, lang, symbol, lines, a, b) ==
    [id |-> id, lang |-> lang, symbol |-> symbol, size |-> SumLen(lines, a, b),
     first |-> a, last |-> b,
     kw |-> Keywords(lines, a, b), sy |-> Symbols(lines, a, b), summary |-> FALSE]

\* the test of fallback_chunking for a natural boundary
IsNaturalBoundary(line) == line.kind \in {"blank", "comment"}

\* fallback_chunking, from 0-based start_line on
RECURSIVE FallbackFrom(_, _, _)
FallbackFrom(lines, lang, start_line) ==
    IF start_line >= Len(lines) THEN <<>>
    ELSE LET end0 == Min(start_line + WindowLines, Len(lines))
             cands == IF end0 < Len(lines)
                        THEN {i \in (start_line + SnapFrom)..(end0 - 1) :
                                 IsNaturalBoundary(lines[i + 1])}
                        ELSE {}
             end_line == IF cands = {} THEN end0 ELSE SetMax(cands) + 1
         IN  <<LinesChunk(<<"lines", start_line, end_line>>, lang, None,
                          lines, start_line + 1, end_line)>>
             \o FallbackFrom(lines, lang, end_line)

fallback_chunking(content, lang) == FallbackFrom(content.lines, lang, 0)

\* subdivide_large_chunk: the chunk's lines in groups of SubdivideLines
RECURSIVE SubdivideFrom(_, _, _, _)
SubdivideFrom(chunk, lines, a, i) ==
    IF a > chunk.last THEN <<>>
    ELSE LET b == Min(a + SubdivideLines - 1, chunk.last)
         IN  <<LinesChunk(chunk.id \o <<"sub", i, 0>>, chunk.lang, chunk.symbol,
                          lines, a, b)>>
             \o SubdivideFrom(chunk, lines, b + 1, i + 1)

subdivide_large_chunk(chunk, lines) == SubdivideFrom(chunk, lines, chunk.first, 0)

\* extract_semantic_chunks: one chunk per symbol node, large ones subdivided
RECURSIVE SemanticFrom(_, _, _, _)
SemanticFrom(nodes, lines, lang, i) ==
    IF i > Len(nodes) THEN <<>>
    ELSE LET n == nodes[i]
             chunk == LinesChunk(<<"bytes", LineStart(lines, n.first), LineEnd(lines, n.last)>>,
                                 lang, n.symbol, lines, n.first, n.last)
         IN  (IF chunk.size > max_chunk_size
                THEN subdivide_large_chunk(chunk, lines)
                ELSE <<chunk>>)
             \o SemanticFrom(nodes, lines, lang, i + 1)

extract_semantic_chunks(content, lang, tree) ==
    SemanticFrom(tree.nodes, content.lines, lang, 1)

\* the bytes start..end of a file as a chunk; its tokens are those of the
\* lines it touches
BytesChunk(kind, lang, lines, start, end) ==
    LET touched == {i \in 1..Len(lines) :
                       LineStart(lines, i) < end /\ LineEnd(lines, i) >= start}
    IN  [id |-> <<kind, start, end>>, lang |-> lang, symbol |-> None,
         size |-> end - start, first |-> 0, last |-> 0,
         kw |-> UNION {lines[i].kw : i \in touched},
         sy |-> UNION {lines[i].sy : i \in touched},
         summary |-> (kind = "final")]

\* extract_context_chunks, strategy 2: the loop over the sorted boundaries
\* (the tree has no symbol node here, so no range is covered)
RECURSIVE ContextFrom(_, _, _, _, _)
ContextFrom(boundaries, content, lang, i, start) ==
    IF i > Len(boundaries)
      THEN IF start < ContentLen(content)
             THEN <<BytesChunk("final", lang, content.lines, start, ContentLen(content))>>
             ELSE <<>>
      ELSE IF boundaries[i] > start + ContextMinSpan
             THEN <<BytesChunk("semantic", lang, content.lines, start, boundaries[i])>>
                  \o ContextFrom(boundaries, content, lang, i + 1, boundaries[i])
             ELSE ContextFrom(boundaries, content, lang, i + 1, start)

\* the sorted, deduplicated semantic_boundaries of the analysis
RECURSIVE SortedSeq(_)
SortedSeq(S) ==
    IF S = {} THEN <<>>
    ELSE LET m == CHOOSE x \in S : \A y \in S : x <= y
         IN  <<m>> \o SortedSeq(S \ {m})

extract_context_chunks(content, lang, tree) ==
    LET boundaries == SortedSeq({LineEnd(content.lines, i) : i \in tree.boundaryLines})
        chunks == ContextFrom(boundaries, content, lang, 1, 0)
    IN  IF boundaries = <<>> \/ chunks = <<>>
          THEN fallback_chunking(content, lang)
          ELSE chunks

\* jaccard_similarity_static as the fraction num / den
JaccardNum(A, B) == IF A = {} /\ B = {} THEN 1 ELSE Cardinality(A \cap B)

JaccardDen(A, B) == IF A = {} /\ B = {} THEN 1 ELSE Cardinality(A \cup B)

\* calculate_chunk_similarity(c1, c2) > 0.3, that is
\* 0.3 * keyword_similarity + 0.7 * symbol_similarity > 0.3, in integers
SimilarityAbove03(c1, c2) ==
    3 * JaccardNum(c1.kw, c2.kw) * JaccardDen(c1.sy, c2.sy)
      + 7 * JaccardNum(c1.sy, c2.sy) * JaccardDen(c1.kw, c2.kw)
    > 3 * JaccardDen(c1.kw, c2.kw) * JaccardDen(c1.sy, c2.sy)

\* optimize_chunks: the merged chunk (code = "{current}\n{next}")
MergeChunks(cur, nxt) ==
    [cur EXCEPT !.size = cur.size + 1 + nxt.size,
                !.id = cur.id \o nxt.id,
                !.symbol = IF cur.symbol = None THEN nxt.symbol ELSE cur.symbol,
                !.last = nxt.last,
                !.kw = cur.kw \cup nxt.kw,
                !.sy = cur.sy \cup nxt.sy]

\* optimize_chunks: the summary given to a chunk of more than 1000 bytes
WithLargeSummary(c) == [c EXCEPT !.summary = @ \/ c.size > 1000]

\* the merge rule with the two size ceilings taken as alternatives
ShouldMerge_sumOrSimilar(cur, nxt) ==
    /\ cur.lang = nxt.lang
    /\ \/ cur.size + nxt.size < MergeSumMax
       \/ SimilarityAbove03(cur, nxt)

\* optimize_chunks: whether current merges with next
ShouldMerge(cur, nxt) ==
    LET similar == cur.lang = nxt.lang /\ SimilarityAbove03(cur, nxt)
    IN  /\ similar \/ cur.size + nxt.size < MergeSumAny
        /\ cur.size + nxt.size < MergeSumMax

\* optimize_chunks, from index i on (1-based)
RECURSIVE OptimizeFrom(_, _)
OptimizeFrom(chunks, i) ==
    IF i > Len(chunks) THEN <<>>
    ELSE IF chunks[i].size < MergeBelow /\ i + 1 <= Len(chunks)
                /\ ShouldMerge(chunks[i], chunks[i + 1])
           THEN <<WithLargeSummary(MergeChunks(chunks[i], chunks[i + 1]))>>
                \o OptimizeFrom(chunks, i + 2)
           ELSE <<WithLargeSummary(chunks[i])>> \o OptimizeFrom(chunks, i + 1)

optimize_chunks(chunks) == OptimizeFrom(chunks, 1)

\* chunk_file: the parse and the dispatch on it, before post-processing
RawChunks(content, lang, tree) ==
    IF has_parser(lang) /\ tree.parsed
      THEN LET semantic_chunks == extract_semantic_chunks(content, lang, tree)
           IN  IF semantic_chunks # <<>> THEN semantic_chunks
               ELSE extract_context_chunks(content, lang, tree)
      ELSE fallback_chunking(content, lang)

\* chunk_file: the retain on the configured size constraints
SizeRetained(chunks) ==
    SelectSeq(chunks, LAMBDA c : c.size >= min_chunk_size /\ c.size <= max_chunk_size)

\* chunk_file: every returned chunk ends with a summary
WithSummaries(chunks) == [i \in DOMAIN chunks |-> [chunks[i] EXCEPT !.summary = TRUE]]

\* Chunker::chunk_file
chunk_file(content, lang, tree) ==
    WithSummaries(SizeRetained(optimize_chunks(RawChunks(content, lang, tree))))

(***************************************************************************)
(* Idle values of each part's variables                                    *)
(***************************************************************************)
NoTree == [parsed |-> FALSE, nodes |-> <<>>, boundaryLines |-> {}]

NoInput == [content |-> [lines |-> <<>>, nl |-> 0], lang |-> "text", tree |-> NoTree]

IdleChunk ==
    /\ cfIn = NoInput
    /\ cfPc = "idle"
    /\ cfOut = <<>>

IdleColl ==
    /\ coll = NoColl
    /\ nextPid = 0

NoReq == [query |-> "", repo |-> <<>>, branch |-> "", k |-> 0, file_hashes |-> <<>>]

NoResp == [status |-> 0, code |-> "", chunks |-> <<>>]

NoCalls == [embed |-> 0, search |-> 0]

IdleNew ==
    /\ initColl = coll
    /\ newPc = "ok"
    /\ newDim = coll.dim
    /\ hits = NoHits

\* the tasks of process_files; worker 0 is the caller of process_events
Tasks == 1..MaxTasks

EventWorker == 0

Workers == {EventWorker} \cup Tasks

NoWorker == -1

\* a worker that is not running: "idle" is a task not spawned yet, or the
\* event loop between two files
IdleWorker ==
    [pc |-> "idle", path |-> <<>>, rev |-> "", lang |-> "", chunks |-> <<>>,
     j |-> 0, i |-> 0, result |-> "none", permit |-> FALSE,
     upserted |-> <<>>, pids |-> <<>>, embedCalls |-> 0, embedErrAt |-> 0, fp0 |-> 0]

\* PipelineStats::default()
NoStats ==
    [files_processed |-> 0, chunks_created |-> 0, embeddings_generated |-> 0,
     errors_encountered |-> 0, bytes_processed |-> 0]

\* the pipeline as IndexingPipeline::new leaves it, with nothing running
IdleWork ==
    /\ permits = 0
    /\ nextTask = 0
    /\ wk = [w \in Workers |-> IdleWorker]
    /\ idxLock = NoWorker
    /\ stats = NoStats
    /\ callPc = "idle"

IdleEvents ==
    /\ receiver = "none"
    /\ chan = "none"
    /\ queue = <<>>
    /\ sent = 0
    /\ received = <<>>
    /\ pePc = "idle"
    /\ peResult = "none"
    /\ evTodo = <<>>
    /\ handled = <<>>

IdlePipe ==
    /\ pcfg = [batch_size |-> 1, max_concurrent_files |-> 1]
    /\ IdleWork
    /\ IdleEvents

IdleRetrieve ==
    /\ disk = <<>>
    /\ req = NoReq
    /\ rPc = "idle"
    /\ popResult = "none"
    /\ calls = NoCalls
    /\ resp = NoResp

NoLang == [done |-> FALSE, val |-> ""]

NoVerdict == [done |-> FALSE, val |-> FALSE]

IdlePath ==
    /\ fpPath = <<>>
    /\ fpLang = NoLang
    /\ fpOk = NoVerdict

NoSearch ==
    [collection |-> "", query_embedding |-> <<>>, limit |-> 0,
     filters |-> [some |-> FALSE]]

NoResults == [done |-> FALSE, ok |-> FALSE, results |-> <<>>]

\* a store whose collection has just been created (create_collection)
IdleStore ==
    /\ vsStore = <<>>
    /\ vsReq = NoSearch
    /\ vsRes = NoResults

\* Option<VectorEntry>: what vectors.get(id) gives
NoEntry ==
    [some |-> FALSE, chunk |-> [id |-> "", code |-> ""], embedding |-> <<>>]

SomeEntry(entry) ==
    [some |-> TRUE, chunk |-> entry.chunk, embedding |-> entry.embedding]

NoOp ==
    [done |-> FALSE, op |-> "", ok |-> FALSE, collection |-> "", chunk_id |-> "",
     embedding |-> <<>>, before |-> NoEntry, earlier |-> {}]

\* InMemoryVectorStore::new(): no collection
IdleColls ==
    /\ vcColls = <<>>
    /\ vcLast = NoOp

NoSimpleInput ==
    [lines |-> <<>>,
     config |-> [max_chunk_size |-> 0, min_chunk_size |-> 0, overlap_size |-> 0]]

IdleSimple ==
    /\ scIn = NoSimpleInput
    /\ scStart = 0
    /\ scChunks = <<>>
    /\ scIters = 0
    /\ scPc = "idle"

IdleMerge ==
    /\ ocIn = <<>>
    /\ ocOut = <<>>
    /\ ocPc = "idle"

NoHolder == 0

\* no task and no call
IdleLocks ==
    /\ lkPc = <<>>
    /\ lkLeft = <<>>
    /\ lkChunker = NoHolder
    /\ lkIndex = NoHolder
    /\ lkStatsW = NoHolder
    /\ lkStatsR = {}

(***************************************************************************)
(* chunk_file applied to a bounded family of files                         *)
(***************************************************************************)
LineCounts == {1, 2, 51, 120}

LineLens == {1, 9, 40, 2500}

\* line i of a file of the family: code lines of one length, with
\* vocabulary "same" the same tokens on every line, with "split" other
\* tokens from line 51 on; line blankAt is empty
FamilyLine(i, len, blankAt, vocab) ==
    IF i = blankAt THEN [len |-> 0, kind |-> "blank", kw |-> {}, sy |-> {}]
    ELSE IF len < 4 THEN [len |-> len, kind |-> "code", kw |-> {}, sy |-> {}]
    ELSE IF vocab = "same" \/ i <= 50
      THEN [len |-> len, kind |-> "code", kw |-> {"struct"}, sy |-> {"alpha"}]
      ELSE [len |-> len, kind |-> "code", kw |-> {"return"}, sy |-> {"beta"}]

FamilyContents ==
    {[lines |-> [i \in 1..n |-> FamilyLine(i, len, blankAt, vocab)], nl |-> nl] :
        n \in LineCounts, len \in LineLens, blankAt \in {0, 45},
        vocab \in {"same", "split"}, nl \in {0, 1}}

\* the symbol nodes a parse tree of an n-line file may hold, in pre-order
NodeCandidates(n) ==
    SelectSeq(<<[first |-> 1, last |-> n, symbol |-> "a"],
                [first |-> 1, last |-> n \div 2, symbol |-> "b"],
                [first |-> (n \div 2) + 1, last |-> n, symbol |-> None]>>,
              LAMBDA nd : nd.first <= nd.last)

RECURSIVE Masked(_, _, _)
Masked(seq, mask, i) ==
    IF i > Len(seq) THEN <<>>
    ELSE (IF i \in mask THEN <<seq[i]>> ELSE <<>>) \o Masked(seq, mask, i + 1)

FamilyTrees(n) ==
    {NoTree} \cup
    {[parsed |-> TRUE, nodes |-> Masked(NodeCandidates(n), mask, 1), boundaryLines |-> bl] :
        mask \in SUBSET (1..3), bl \in SUBSET {1, (n + 1) \div 2, n}}

FamilyInputs ==
    {[content |-> c, lang |-> "text", tree |-> NoTree] : c \in FamilyContents}
    \cup
    UNION {{[content |-> c, lang |-> "rust", tree |-> t] : t \in FamilyTrees(Len(c.lines))} :
              c \in FamilyContents}

\* the call chunker.chunk_file(path, &content, &language, &revision)
ChunkFile ==
    /\ cfPc = "ready"
    /\ cfOut' = chunk_file(cfIn.content, cfIn.lang, cfIn.tree)
    /\ cfPc' = "done"
    /\ UNCHANGED <<cfIn, restOfChunk>>

InitChunk ==
    /\ cfIn \in FamilyInputs
    /\ cfPc = "ready"
    /\ cfOut = <<>>
    /\ IdleColl
    /\ IdleNew
    /\ IdleRetrieve
    /\ IdlePipe
    /\ IdlePath
    /\ IdleStore
    /\ IdleColls
    /\ IdleSimple
    /\ IdleMerge
    /\ IdleLocks

NextChunk == ChunkFile

SpecChunk == InitChunk /\ [][NextChunk]_vars

\* C2 (as claimed): chunk_file returns at least one chunk for every
\* non-empty content, with or without a parser for the language.
C2_AtLeastOneChunk ==
    (cfPc = "done" /\ ContentLen(cfIn.content) > 0) => Len(cfOut) >= 1

\* the drop step as the specification words it: chunks outside
\* [min_chunk_size, max_chunk_size] go, but a sole chunk stays
DropKeepingSole(chunks) ==
    IF Len(chunks) = 1 THEN chunks ELSE SizeRetained(chunks)

\* C16 (as claimed): what chunk_file returns is the merged chunks less
\* exactly those under 100 or over 2000 bytes, a sole chunk being kept
\* whatever its size; a single-line file gives one chunk, covering that
\* line, without a symbol.
C16_DropKeepsSoleChunk ==
    cfPc = "done" =>
        /\ cfOut = WithSummaries(DropKeepingSole(
                       optimize_chunks(RawChunks(cfIn.content, cfIn.lang, cfIn.tree))))
        /\ Len(cfIn.content.lines) = 1 =>
               /\ Len(cfOut) = 1
               /\ cfOut[1].first = 1 /\ cfOut[1].last = 1
               /\ cfOut[1].symbol = None

\* the ids of a chunk list; every id stands for "{path}:" followed by it
ChunkIds(chunks) == {chunks[i].id : i \in DOMAIN chunks}

\* the other contents the same path may have, line for line: other
\* revisions of the file, each with its own sha256 as revision
OtherRevisions ==
    {c \in FamilyContents :
        c # cfIn.content /\ Len(c.lines) = Len(cfIn.content.lines)}

\* C18 (as claimed): the id of a chunk is derived from (path, byte range,
\* revision), so the chunks of two revisions of one file have different
\* ids, also where they cover the same range.
C18_IdsDifferAcrossRevisions ==
    cfPc = "done" =>
        \A c \in OtherRevisions :
            ChunkIds(cfOut) \cap ChunkIds(chunk_file(c, cfIn.lang, cfIn.tree)) = {}

(***************************************************************************)
(* IndexService::new, one action per backend call                          *)
(***************************************************************************)
\* client.list_collections().await? and the branch on collection_exists
NewListCollections ==
    /\ newPc = "list"
    /\ \/ newPc' = "err"                                   \* the call fails
       \/ newPc' = IF coll.exists THEN "info" ELSE "create"
    /\ UNCHANGED <<coll, nextPid, initColl, newDim, hits, restOfNew>>

\* client.collection_info(..).await and the nested matches on its result
NewCollectionInfo ==
    /\ newPc = "info"
    /\ \/ newPc' = "delete"                                \* Err(e): recreate
       \/ /\ coll.exists
          /\ newPc' = IF coll.cfg = "params"
                        THEN IF DimensionMismatch(coll.dim, newDim)
                               THEN "delete" ELSE "ok"
                        ELSE "delete"
    /\ UNCHANGED <<coll, nextPid, initColl, newDim, hits, restOfNew>>

\* recreate_collection, first half: delete_collection, its error only logged
NewDeleteCollection ==
    /\ newPc = "delete"
    /\ \/ coll' = NoColl                                   \* deleted
       \/ coll' = coll                                     \* Err, still there
    /\ newPc' = "create"
    /\ UNCHANGED <<nextPid, initColl, newDim, hits, restOfNew>>

\* create_collection(..).await?  The backend refuses to create a collection
\* that exists.
NewCreateCollection ==
    /\ newPc = "create"
    /\ \/ /\ ~coll.exists
          /\ coll' = FreshColl(newDim)
          /\ newPc' = "ok"
       \/ /\ coll' = coll                                  \* the call fails
          /\ newPc' = "err"
    /\ UNCHANGED <<nextPid, initColl, newDim, hits, restOfNew>>

\* add_embedding after start-up: upsert under a fresh point id
NewThenUpsert ==
    /\ newPc = "ok"
    /\ nextPid < MaxUuids
    /\ coll.exists
    /\ coll' = [coll EXCEPT !.points =
                    @ \cup {Point(nextPid + 1, <<"a", "/", "x">>, "R1", nextPid + 1, 0, TRUE)}]
    /\ nextPid' = nextPid + 1
    /\ UNCHANGED <<initColl, newPc, newDim, hits, restOfNew>>

\* a search after start-up (no filter): every stored point is a candidate
NewThenSearch ==
    /\ newPc = "ok"
    /\ coll.exists
    /\ hits' = [done |-> TRUE, points |-> coll.points]
    /\ UNCHANGED <<coll, nextPid, initColl, newPc, newDim, restOfNew>>

InitNew ==
    /\ coll \in {NoColl} \cup
                [exists : {TRUE}, dim : Dims, cfg : CfgKinds,
                 points : {{StalePoint(p) : p \in S} : S \in SUBSET StalePids}]
    /\ initColl = coll
    /\ newPc = "list"
    /\ newDim \in Dims
    /\ nextPid = 0
    /\ hits = NoHits
    /\ IdleRetrieve
    /\ IdleChunk
    /\ IdlePipe
    /\ IdlePath
    /\ IdleStore
    /\ IdleColls
    /\ IdleSimple
    /\ IdleMerge
    /\ IdleLocks

NextNew ==
    \/ NewListCollections
    \/ NewCollectionInfo
    \/ NewDeleteCollection
    \/ NewCreateCollection
    \/ NewThenUpsert
    \/ NewThenSearch

SpecNew == InitNew /\ [][NextNew]_vars

\* the collection existed at start-up with a readable dimension other than
\* the embedder's
StartupMismatch ==
    initColl.exists /\ initColl.cfg = "params" /\ initColl.dim # newDim

\* C6: when the collection existed with another dimension and
\* IndexService::new has returned Ok, no point stored before start-up is in
\* the collection or in the hits of a search, and as long as nothing has
\* been upserted the collection is empty and a search returns zero hits.
C6_StalePointsGone ==
    (newPc = "ok" /\ StartupMismatch) =>
        /\ coll.points \cap initColl.points = {}
        /\ hits.points \cap initColl.points = {}
        /\ (nextPid = 0 => coll.points = {} /\ hits.points = {})

\* C6 witness: start-up met a collection of another dimension holding
\* points, returned Ok, and a search ran before any upsert.
C6_Witness ==
    /\ newPc = "ok" /\ StartupMismatch
    /\ initColl.points # {}
    /\ hits.done /\ nextPid = 0

\* C7: whenever IndexService::new has returned Ok the collection exists and
\* declares the embedder's dimension, whatever the backend held at start-up.
C7_DimensionAfterNew ==
    newPc = "ok" =>
        coll.exists /\ coll.cfg = "params" /\ coll.dim = newDim

\* C7 witness: start-up met a collection whose configuration could not be
\* read and whose stored dimension differs, and returned Ok.
C7_Witness ==
    /\ newPc = "ok"
    /\ initColl.exists /\ initColl.cfg # "params" /\ initColl.dim # newDim

(***************************************************************************)
(* Retrieval API: proof-of-possession                                      *)
(***************************************************************************)
\* contents a file on disk may have; Unreadable stands for a failing fs::read
Contents == {"hello", "world"}

Unreadable == "<unreadable>"

\* format!("{:x}", Sha256(content)): lower-case hex, here its first 8 digits
Sha256Hex(content) ==
    CASE content = "hello" -> "2cf24dba"
      [] content = "world" -> "486ea462"
      [] OTHER -> "e3b0c442"

PopPaths == {"README.md", "a.rs"}

DiskStates ==
    {d \in [PopPaths -> Contents \cup {Unreadable}] : d["a.rs"] # "hello"}

ExpectedHashes == {"dummy_hash"} \cup {Sha256Hex(c) : c \in Contents}

FileHashes == UNION {[S -> ExpectedHashes] : S \in SUBSET PopPaths}

\* the loop of validate_proof_of_possession over the entries still to visit:
\* the value of valid_files after it
RECURSIVE ValidFiles(_, _, _)
ValidFiles(file_hashes, d, todo) ==
    IF todo = {} THEN 0
    ELSE LET file_path == CHOOSE x \in todo : TRUE
             expected_hash == file_hashes[file_path]
             one == IF expected_hash = "dummy_hash" THEN 1
                    ELSE IF d[file_path] = Unreadable THEN 0
                    ELSE IF Sha256Hex(d[file_path]) = expected_hash THEN 1
                    ELSE 0
         IN  one + ValidFiles(file_hashes, d, todo \ {file_path})

\* validate_proof_of_possession: TRUE for Ok(()), FALSE for Err
ValidateProofOfPossession_all(file_hashes, d) ==
    IF DOMAIN file_hashes = {} THEN TRUE
    ELSE ValidFiles(file_hashes, d, DOMAIN file_hashes) = Cardinality(DOMAIN file_hashes)
ValidateProofOfPossession(file_hashes, d) ==
    IF DOMAIN file_hashes = {} THEN TRUE
    ELSE ValidFiles(file_hashes, d, DOMAIN file_hashes) > 0

(***************************************************************************)
(* Retrieval API: search_similar                                           *)
(***************************************************************************)
\* bound on the k of a request
MaxK == 2

\* the embedder: text to vector (one coordinate stands for the vector)
EmbedText(text) == IF text = "find a" THEN 0 ELSE 1

\* cosine score of a stored point against a query vector: higher is closer
Score(p, qv) == 10 - (IF p.vec >= qv THEN p.vec - qv ELSE qv - p.vec)

\* what the backend may answer to search_points(collection, qv, k): the k
\* best points, best first (ties in any order)
SearchPoints(pts, qv, k) ==
    LET n == Min(k, Cardinality(pts))
    IN  {s \in [1..n -> pts] :
            /\ \A i, j \in 1..n : i < j => s[i] # s[j] /\ Score(s[i], qv) >= Score(s[j], qv)
            /\ \A p \in pts \ Range(s) : \A i \in 1..n : Score(s[i], qv) >= Score(p, qv)}

\* path.split('/').collect()
RECURSIVE SplitSlash(_)
SplitSlash(path) ==
    IF \A i \in DOMAIN path : path[i] # "/" THEN <<path>>
    ELSE LET i == CHOOSE i \in DOMAIN path :
                      path[i] = "/" /\ \A j \in 1..(i - 1) : path[j] # "/"
         IN  <<SubSeq(path, 1, i - 1)>> \o SplitSlash(SubSeq(path, i + 1, Len(path)))

\* path.contains(repo)
Contains(path, repo) ==
    \E i \in 1..(Len(path) + 1) :
        /\ i + Len(repo) - 1 <= Len(path)
        /\ SubSeq(path, i, i + Len(repo) - 1) = repo

\* an Option<&str> filter
NoneRepo == [some |-> FALSE, val |-> <<>>]

NoneBranch == [some |-> FALSE, val |-> ""]

SomeFilter(v) == [some |-> TRUE, val |-> v]

\* the matches_repo closure of search_similar (every payload of the model
\* has a string path)
MatchesRepo(p, repo_filter) ==
    ~repo_filter.some \/
        LET repo == repo_filter.val
            exact_match == repo \in Range(SplitSlash(p.path))
            substring_match == Contains(p.path, repo)
            wildcard_match == repo = <<>> \/ repo = <<".">> \/ repo = <<"*">>
        IN  exact_match \/ substring_match \/ wildcard_match

\* the matches_branch closure of search_similar
MatchesBranch(p, branch_filter) ==
    ~branch_filter.some \/ p.branch = branch_filter.val

\* search_similar after the backend answered raw: filter, then
\* payload_to_chunk (which fails on a malformed payload, and the hit is
\* dropped); every converted chunk gets a fresh uuid as its id
SearchSimilar(raw, repo_filter, branch_filter, uuid0) ==
    LET kept == SelectSeq(raw, LAMBDA p :
                    MatchesRepo(p, repo_filter) /\ MatchesBranch(p, branch_filter) /\ p.ok)
    IN  [i \in 1..Len(kept) |->
            [pid |-> kept[i].pid, path |-> kept[i].path, code |-> kept[i].code,
             chunk_hash |-> uuid0 + i]]

(***************************************************************************)
(* Retrieval API: retrieve_handler                                         *)
(***************************************************************************)
Repos == {<<>>, <<"*">>, <<"f">>, <<"a">>, <<"z">>}

Branches == {"", "R1", "R2"}

Requests ==
    [query : {"find a"}, repo : Repos, branch : Branches, k : 1..MaxK,
     file_hashes : FileHashes]

SamplePoints ==
    { Point(101, <<"a", "b", "/", "f", "/", "x">>, "R1", 101, 0, TRUE),
      Point(102, <<"o", "/", "b">>, "R1", 102, 1, TRUE),
      Point(103, <<"f", "/", "y">>, "R2", 103, 2, TRUE),
      Point(104, <<"f", "/", "z">>, "R1", 104, 3, FALSE) }

\* a request arrives (axum hands the deserialized body to retrieve_handler)
RetrieveReceive ==
    /\ rPc = "idle"
    /\ nextPid < MaxUuids
    /\ \E r \in Requests : req' = r
    /\ rPc' = "validate"
    /\ popResult' = "none"
    /\ calls' = NoCalls
    /\ resp' = NoResp
    /\ UNCHANGED <<coll, nextPid, disk, restOfRetrieve>>

\* retrieve_handler: validate_proof_of_possession and the match on it
RetrieveValidate_lenient ==
    /\ rPc = "validate"
    /\ popResult' = IF ValidateProofOfPossession(req.file_hashes, disk) THEN "ok" ELSE "err"
    /\ rPc' = "embed"
    /\ UNCHANGED <<coll, nextPid, disk, req, calls, resp, restOfRetrieve>>
RetrieveValidate ==
    /\ rPc = "validate"
    /\ LET ok == ValidateProofOfPossession(req.file_hashes, disk)
       IN  /\ popResult' = IF ok THEN "ok" ELSE "err"
           /\ rPc' = IF ok THEN "embed" ELSE "done"
           /\ resp' = IF ok THEN resp
                      ELSE [status |-> 403, code |-> "INVALID_PROOF", chunks |-> <<>>]
    /\ UNCHANGED <<coll, nextPid, disk, req, calls, restOfRetrieve>>

\* handle_retrieval_request: state.embedder.embed(&request.query)
RetrieveEmbed ==
    /\ rPc = "embed"
    /\ calls' = [calls EXCEPT !.embed = @ + 1]
    /\ \/ rPc' = "search" /\ resp' = resp
       \/ /\ rPc' = "done"                                 \* the embedder fails
          /\ resp' = [status |-> 500, code |-> "RETRIEVAL_ERROR", chunks |-> <<>>]
    /\ UNCHANGED <<coll, nextPid, disk, req, popResult, restOfRetrieve>>

\* handle_retrieval_request: search_similar(&query_embedding, request.k,
\* None, None) and the conversion of its results
RetrieveSearch ==
    /\ rPc = "search"
    /\ calls' = [calls EXCEPT !.search = @ + 1]
    /\ rPc' = "done"
    /\ \/ /\ resp' = [status |-> 500, code |-> "RETRIEVAL_ERROR", chunks |-> <<>>]
          /\ nextPid' = nextPid                             \* the search fails
       \/ /\ coll.exists
          /\ \E raw \in SearchPoints(coll.points, EmbedText(req.query), req.k) :
                LET found == SearchSimilar(raw, NoneRepo, NoneBranch, nextPid)
                IN  /\ resp' = [status |-> 200, code |-> "", chunks |-> found]
                    /\ nextPid' = nextPid + Len(found)
    /\ UNCHANGED <<coll, disk, req, popResult, restOfRetrieve>>

\* the response has been sent; the handler's locals are gone
RetrieveRespond ==
    /\ rPc = "done"
    /\ rPc' = "idle"
    /\ req' = NoReq
    /\ popResult' = "none"
    /\ calls' = NoCalls
    /\ resp' = NoResp
    /\ UNCHANGED <<coll, nextPid, disk, restOfRetrieve>>

InitRetrieve ==
    /\ coll \in [exists : {TRUE}, dim : {384}, cfg : {"params"},
                 points : SUBSET SamplePoints]
    /\ nextPid = 0
    /\ IdleNew
    /\ disk \in DiskStates
    /\ req = NoReq
    /\ rPc = "idle"
    /\ popResult = "none"
    /\ calls = NoCalls
    /\ resp = NoResp
    /\ IdleChunk
    /\ IdlePipe
    /\ IdlePath
    /\ IdleStore
    /\ IdleColls
    /\ IdleSimple
    /\ IdleMerge
    /\ IdleLocks

NextRetrieve ==
    \/ RetrieveReceive
    \/ RetrieveValidate
    \/ RetrieveEmbed
    \/ RetrieveSearch
    \/ RetrieveRespond

SpecRetrieve == InitRetrieve /\ [][NextRetrieve]_vars

\* the stored point a returned chunk was hydrated from
PointOf(chunk) == CHOOSE p \in coll.points : p.pid = chunk.pid

\* C1 (as claimed): for a request with a non-empty repo and/or branch, every
\* chunk of a 200 response has a path that satisfies repo-match(repo) and a
\* payload branch equal to the requested branch.
C1_ResponseRespectsFilters ==
    (rPc = "done" /\ resp.status = 200) =>
        \A i \in DOMAIN resp.chunks :
            /\ req.repo # <<>> =>
                   MatchesRepo(PointOf(resp.chunks[i]), SomeFilter(req.repo))
            /\ req.branch # "" =>
                   MatchesBranch(PointOf(resp.chunks[i]), SomeFilter(req.branch))

\* an entry of file_hashes is accepted: the literal dummy_hash, or the
\* SHA-256 hex of the bytes of the readable file at that path
EntryAccepted(file_path, expected) ==
    \/ expected = "dummy_hash"
    \/ disk[file_path] \in Contents /\ expected = Sha256Hex(disk[file_path])

\* C8: proof-of-possession accepts a request iff file_hashes is empty or at
\* least one entry is accepted; a mismatch or a read error rejects only its
\* own entry.
C8_ProofOfPossession ==
    popResult # "none" =>
        (popResult = "ok" <=>
            \/ DOMAIN req.file_hashes = {}
            \/ \E f \in DOMAIN req.file_hashes : EntryAccepted(f, req.file_hashes[f]))

\* C8 witness: a request was accepted although one entry names an unreadable
\* file, because the other entry carries the real hash of its file.
C8_Witness ==
    /\ popResult = "ok"
    /\ DOMAIN req.file_hashes = PopPaths
    /\ disk["a.rs"] = Unreadable
    /\ req.file_hashes["a.rs"] # "dummy_hash"
    /\ req.file_hashes["README.md"] # "dummy_hash"

\* C9, state part: the embedder and the vector index are called only for a
\* request whose proof-of-possession was accepted, and a request whose
\* validation failed ends with 403 INVALID_PROOF and no such call.
C9_ValidatedFirst ==
    /\ (calls.embed > 0 \/ calls.search > 0 \/ rPc \in {"embed", "search"}) =>
           popResult = "ok"
    /\ (popResult = "err" /\ rPc = "done") =>
           resp.status = 403 /\ resp.code = "INVALID_PROOF" /\ calls = NoCalls
    /\ resp.status = 403 => popResult = "err"

\* C9: proof-of-possession is validated before any embedder or vector-index
\* call; a failed validation ends the request with 403 INVALID_PROOF, without
\* embed or search, and no step of the handler changes the index.
C9_ProofBeforeRetrieval ==
    /\ []C9_ValidatedFirst
    /\ [][coll' = coll]_vars

\* C9 witness: a request with a wrong hash has been answered 403.
C9_Witness ==
    /\ rPc = "done" /\ resp.status = 403
    /\ DOMAIN req.file_hashes # {}
    /\ coll.points # {}

(***************************************************************************)
(* Indexing pipeline: the files it meets and its pure helpers              *)
(***************************************************************************)
\* paths, character by character
FileA == <<"a", ".", "r", "s">>

FileB == <<"B", ".", "R", "S">>

FileBad == <<"x", ".", "r", "s">>

FilePng == <<"i", ".", "p", "n", "g">>

PipePaths == {FileA, FileB, FileBad, FilePng}

\* a file of n lines "struct a;" ending with a newline
StructLines(n) == [lines |-> [i \in 1..n |-> FamilyLine(i, 9, 0, "same")], nl |-> 1]

\* what is on disk: FileBad is a file that is not valid UTF-8, so that
\* tokio::fs::read_to_string fails on it
PipeDisk(path) ==
    CASE path = FileA -> [utf8 |-> TRUE, content |-> StructLines(120)]
      [] path = FileB -> [utf8 |-> TRUE, content |-> StructLines(20)]
      [] path = FilePng -> [utf8 |-> FALSE, content |-> StructLines(1)]
      [] OTHER -> [utf8 |-> FALSE, content |-> StructLines(2)]

\* the letters, for str::to_lowercase and str::to_uppercase
Lowers ==
    <<"a", "b", "c", "d", "e", "f", "g", "h", "i", "j", "k", "l", "m",
      "n", "o", "p", "q", "r", "s", "t", "u", "v", "w", "x", "y", "z">>

Uppers ==
    <<"A", "B", "C", "D", "E", "F", "G", "H", "I", "J", "K", "L", "M",
      "N", "O", "P", "Q", "R", "S", "T", "U", "V", "W", "X", "Y", "Z">>

ToLower(ch) ==
    IF \E i \in DOMAIN Uppers : Uppers[i] = ch
      THEN Lowers[CHOOSE i \in DOMAIN Uppers : Uppers[i] = ch]
      ELSE ch

ToUpper(ch) ==
    IF \E i \in DOMAIN Lowers : Lowers[i] = ch
      THEN Uppers[CHOOSE i \in DOMAIN Lowers : Lowers[i] = ch]
      ELSE ch

\* Path::file_name: what follows the last "/" of the path
RECURSIVE LastSlash(_, _)
LastSlash(path, i) ==
    IF i = 0 THEN 0 ELSE IF path[i] = "/" THEN i ELSE LastSlash(path, i - 1)

FileName(path) == SubSeq(path, LastSlash(path, Len(path)) + 1, Len(path))

\* Path::extension: the part of the file name after its last ".", none
\* without a "." or when the only "." starts the name; a name that ends
\* with "." has the empty extension
RECURSIVE LastDot(_, _)
LastDot(path, i) ==
    IF i = 0 THEN 0 ELSE IF path[i] = "." THEN i ELSE LastDot(path, i - 1)

HasExtension(path) == LastDot(FileName(path), Len(FileName(path))) > 1

Extension(path) ==
    LET name == FileName(path)
        d == LastDot(name, Len(name))
    IN  IF d <= 1 THEN <<>> ELSE SubSeq(name, d + 1, Len(name))

\* the characters as a string: lower-cased, as they are, upper-cased
RECURSIVE Concat(_)
Concat(chars) == IF chars = <<>> THEN "" ELSE ToLower(Head(chars)) \o Concat(Tail(chars))

RECURSIVE Join(_)
Join(chars) == IF chars = <<>> THEN "" ELSE Head(chars) \o Join(Tail(chars))

UpperChars(chars) == [i \in DOMAIN chars |-> ToUpper(chars[i])]

\* str::starts_with and str::contains
StartsWith(s, pat) == Len(pat) <= Len(s) /\ SubSeq(s, 1, Len(pat)) = pat

PathContains(s, pat) ==
    \E i \in 1..(Len(s) - Len(pat) + 1) : SubSeq(s, i, i + Len(pat) - 1) = pat

\* get_language_from_path: the lower-cased extension, "text" without one
get_language_from_path(path) ==
    IF HasExtension(path) THEN Concat(Extension(path)) ELSE "text"

\* PipelineConfig::default().supported_extensions
supported_extensions ==
    {"rs", "py", "js", "ts", "jsx", "tsx", "java", "cpp", "cc", "cxx", "c",
     "h", "hpp", "go", "rb", "scala", "cs", "php", "swift", "kt", "kts",
     "css", "scss", "sass", "less", "html", "htm", "xml", "json", "yaml",
     "yml", "toml", "md", "markdown", "rst", "txt"}

\* should_ignore_file: its four lists
binary_extensions ==
    {"exe", "dll", "so", "dylib", "a", "lib", "obj", "o", "bin", "class",
     "jar", "war", "ear", "zip", "tar", "gz", "bz2", "xz", "7z", "rar",
     "pdf", "doc", "docx", "xls", "xlsx", "ppt", "pptx", "jpg", "jpeg",
     "png", "gif", "bmp", "svg", "ico", "mp3", "mp4", "avi", "mov", "wmv",
     "flv", "db", "sqlite", "sqlite3", "db-shm", "db-wal"}

system_files == {".DS_Store", "Thumbs.db", "desktop.ini"}

TargetDir == <<"t", "a", "r", "g", "e", "t">>

TargetContained == {<<"/", "t", "a", "r", "g", "e", "t", "/">>, <<"\\", "t", "a", "r", "g", "e", "t", "\\">>}

TargetPrefixes == {<<"t", "a", "r", "g", "e", "t", "/">>, <<"t", "a", "r", "g", "e", "t", "\\">>}

ignore_patterns ==
    {<<"/", "v", "e", "n", "d", "o", "r", "/">>,
     <<"\\", "v", "e", "n", "d", "o", "r", "\\">>,
     <<"/", ".", "g", "i", "t", "/">>,
     <<"\\", ".", "g", "i", "t", "\\">>,
     <<"/", "n", "o", "d", "e", "_", "m", "o", "d", "u", "l", "e", "s", "/">>,
     <<"\\", "n", "o", "d", "e", "_", "m", "o", "d", "u", "l", "e", "s", "\\">>,
     <<"/", ".", "f", "a", "s", "t", "e", "m", "b", "e", "d", "_", "c", "a", "c", "h", "e", "/">>,
     <<"\\", ".", "f", "a", "s", "t", "e", "m", "b", "e", "d", "_", "c", "a", "c", "h", "e", "\\">>,
     <<"/", "d", "e", "b", "u", "g", "/">>,
     <<"\\", "d", "e", "b", "u", "g", "\\">>}

should_ignore_file(path) ==
    \/ \E pat \in TargetContained : PathContains(path, pat)
    \/ \E pat \in TargetPrefixes : StartsWith(path, pat)
    \/ path = TargetDir
    \/ HasExtension(path) /\ Concat(Extension(path)) \in binary_extensions
    \/ Join(FileName(path)) \in system_files
    \/ \E pat \in ignore_patterns : PathContains(path, pat)

\* the paths given to the eligibility test and to the language detection
FooRs == <<"f", "o", "o", ".", "r", "s">>

FooRsMixed == <<"f", "o", "o", ".", "R", "s">>

FooUnknown == <<"f", "o", "o", ".", "u", "n", "k", "n", "o", "w", "n">>

FooPng == <<"f", "o", "o", ".", "p", "n", "g">>

Readme == <<"R", "E", "A", "D", "M", "E">>

ReadmeBak == <<"R", "E", "A", "D", "M", "E", ".", "b", "a", "k">>

EligFiles ==
    {FooRs, FooRsMixed, FooUnknown, FooPng, Readme, ReadmeBak,
     <<"a", ".", "P", "N", "G">>,
     <<"a", ".", "s", "v", "g">>,
     <<"a", ".", "t", "a", "r", ".", "g", "z">>,
     <<"a", ".", "m", "d">>,
     <<"a", ".", "p", "y">>,
     <<"a", ".", "R", "S">>,
     <<".", "r", "s">>,
     <<".", "g", "i", "t", "i", "g", "n", "o", "r", "e">>,
     <<"M", "a", "k", "e", "f", "i", "l", "e">>,
     <<"r", "e", "a", "d", "m", "e">>,
     <<"R", "e", "a", "d", "M", "e", "-", "f", "i", "r", "s", "t">>,
     <<"R", "E", "A", "D", "M", "E", ".">>,
     <<"L", "I", "C", "E", "N", "S", "E", "-", "M", "I", "T">>,
     <<"L", "I", "C", "E", "N", "S", "E", ".", "t", "x", "t">>,
     <<"t", "o", "d", "o", "l", "i", "s", "t">>,
     <<"N", "E", "W", "S">>,
     <<"a", ".", "b", "/", "R", "E", "A", "D", "M", "E">>,
     <<".", "D", "S", "_", "S", "t", "o", "r", "e">>,
     <<".", "d", "s", "_", "s", "t", "o", "r", "e">>,
     <<"T", "h", "u", "m", "b", "s", ".", "d", "b">>,
     <<"r", "/", "d", "e", "s", "k", "t", "o", "p", ".", "i", "n", "i">>,
     <<"t", "a", "r", "g", "e", "t">>,
     <<"t", "a", "r", "g", "e", "t", "/", "a", ".", "r", "s">>,
     <<"/", "r", "/", "t", "a", "r", "g", "e", "t", "/", "a", ".", "r", "s">>,
     <<"/", "r", "/", "x", "t", "a", "r", "g", "e", "t", "/", "a", ".", "r", "s">>,
     <<"/", "r", "/", "t", "a", "r", "g", "e", "t", "s", "/", "a", ".", "r", "s">>,
     <<"r", "\\", "t", "a", "r", "g", "e", "t", "\\", "a", ".", "r", "s">>,
     <<"t", "a", "r", "g", "e", "t", "\\", "a", ".", "r", "s">>,
     <<"v", "e", "n", "d", "o", "r", "/", "a", ".", "r", "s">>,
     <<"/", "r", "/", "v", "e", "n", "d", "o", "r", "/", "a", ".", "r", "s">>,
     <<"/", "r", "/", "v", "e", "n", "d", "o", "r", "/", "R", "E", "A", "D", "M", "E">>,
     <<"/", "r", "/", ".", "g", "i", "t", "/", "c", "o", "n", "f", "i", "g">>,
     <<"/", "r", "/", ".", "g", "i", "t", "/", "a", ".", "r", "s">>,
     <<".", "g", "i", "t", "/", "a", ".", "r", "s">>,
     <<"/", "r", "/", "n", "o", "d", "e", "_", "m", "o", "d", "u", "l", "e", "s", "/", "a", ".", "j", "s">>,
     <<"n", "o", "d", "e", "_", "m", "o", "d", "u", "l", "e", "s", "/", "a", ".", "j", "s">>,
     <<"/", "r", "/", ".", "f", "a", "s", "t", "e", "m", "b", "e", "d", "_", "c", "a", "c", "h", "e", "/", "a", ".", "j", "s", "o", "n">>,
     <<"/", "r", "/", "d", "e", "b", "u", "g", "/", "a", ".", "r", "s">>,
     <<"/", "r", "/", "d", "e", "b", "u", "g", ".", "r", "s">>,
     <<"r", "\\", "v", "e", "n", "d", "o", "r", "\\", "a", ".", "r", "s">>,
     <<"/", "r", "/", "s", "r", "c", "/", "a", ".", "r", "s">>,
     <<"/", "r", "/", "s", "r", "c", "/", "a", ".", "o">>,
     <<"/", "r", "/", "s", "r", "c", "/", "a", ".", "s", "o", ".", "r", "s">>,
     <<"/", "r", "/", "s", "r", "c", "/", "l", "i", "b", ".", "a">>}

\* paths that are a directory or that no longer exist
NotFiles ==
    {<<"s", "r", "c">>,
     <<"d", "o", "c", "s", "/", "R", "E", "A", "D", "M", "E">>,
     <<"g", "o", "n", "e", ".", "r", "s">>}

EligPaths == EligFiles \cup NotFiles

\* Path::is_file
is_file(path) == path \in PipePaths \cup EligFiles

common_text_files ==
    {<<"R", "E", "A", "D", "M", "E">>,
     <<"L", "I", "C", "E", "N", "S", "E">>,
     <<"C", "H", "A", "N", "G", "E", "L", "O", "G">>,
     <<"C", "O", "N", "T", "R", "I", "B", "U", "T", "I", "N", "G">>,
     <<"A", "U", "T", "H", "O", "R", "S">>,
     <<"I", "N", "S", "T", "A", "L", "L">>,
     <<"N", "E", "W", "S">>,
     <<"T", "O", "D", "O">>,
     <<"C", "O", "P", "Y", "I", "N", "G">>}

\* should_process_file
should_process_file_allowFirst(path) ==
    IF ~is_file(path) THEN FALSE
    ELSE IF HasExtension(path) /\ Concat(Extension(path)) \in supported_extensions THEN TRUE
    ELSE IF should_ignore_file(path) THEN FALSE
    ELSE IF ~HasExtension(path)
      THEN \E name \in common_text_files : StartsWith(UpperChars(FileName(path)), name)
    ELSE FALSE
should_process_file(path) ==
    IF ~is_file(path) THEN FALSE
    ELSE IF should_ignore_file(path) THEN FALSE
    ELSE IF HasExtension(path) /\ Concat(Extension(path)) \in supported_extensions THEN TRUE
    ELSE IF ~HasExtension(path)
      THEN \E name \in common_text_files : StartsWith(UpperChars(FileName(path)), name)
    ELSE FALSE

\* generate_file_hash: format!("{:x}", Sha256(content)), its first 8 digits
generate_file_hash(content) ==
    CASE content = StructLines(120) -> "9e2bd341"
      [] content = StructLines(20) -> "d4c68f7e"
      [] OTHER -> "e3b0c442"

\* chunk.code: the text of a chunk, given by the lines it spans and its length
CodeOf(chunk) == <<chunk.first, chunk.last, chunk.size>>

\* embedder.embed_batch on success: one vector per text
embed_batch(chunks) == [k \in DOMAIN chunks |-> chunks[k].size % 3]

\* chunks.chunks(batch_size): the indexes of the chunks of batch j
BatchOf(n, batch_size, j) == ((j - 1) * batch_size + 1)..Min(j * batch_size, n)

\* chunk_batches.len()
BatchCount(n, batch_size) == (n + batch_size - 1) \div batch_size

\* the configurations the pipeline runs under
BatchSizes == {1, 2}

Configs == [batch_size : BatchSizes, max_concurrent_files : 1..MaxConcurrent]

\* chunker.chunk_file(path, &content, &language, &revision) for each file on
\* disk, with the language process_file detects for it
PipeChunks ==
    [path \in PipePaths |->
        chunk_file(PipeDisk(path).content, get_language_from_path(path), NoTree)]

(***************************************************************************)
(* process_file and process_chunk_batch, one action per await point        *)
(***************************************************************************)
\* process_file: read_to_string, get_language_from_path, generate_file_hash
PfRead(w) ==
    /\ wk[w].pc = "read"
    /\ LET f == PipeDisk(wk[w].path)
       IN  wk' = [wk EXCEPT ![w] =
                IF f.utf8
                  THEN [@ EXCEPT !.pc = "chunk",
                                 !.lang = get_language_from_path(wk[w].path),
                                 !.rev = generate_file_hash(f.content)]
                  ELSE [@ EXCEPT !.pc = "returned", !.result = "err"]]
    /\ UNCHANGED <<coll, nextPid, pcfg, permits, nextTask, idxLock, stats, callPc,
                   eventVars, restOfPipe>>

\* process_file: chunk_file under the chunker's write lock, then the split
\* into batches (a file without chunks goes straight to the statistics);
\* chunks.chunks(0) panics
PfChunk(w) ==
    /\ wk[w].pc = "chunk"
    /\ LET chunks == PipeChunks[wk[w].path]
       IN  wk' = [wk EXCEPT ![w] =
                IF pcfg.batch_size = 0
                  THEN [@ EXCEPT !.chunks = chunks, !.pc = "returned", !.result = "panic"]
                  ELSE [@ EXCEPT !.chunks = chunks,
                                 !.j = IF chunks = <<>> THEN 0 ELSE 1,
                                 !.pc = IF chunks = <<>> THEN "stats" ELSE "embed"]]
    /\ UNCHANGED <<coll, nextPid, pcfg, permits, nextTask, idxLock, stats, callPc,
                   eventVars, restOfPipe>>

\* process_chunk_batch: embedder.embed_batch for batch j and the test of the
\* number of embeddings; an Err of either ends process_file with that Err
PfEmbed_skipBatch(w) ==
    /\ wk[w].pc = "embed"
    /\ \/ wk' = [wk EXCEPT ![w] = [@ EXCEPT !.embedCalls = @ + 1, !.pc = "lock"]]
       \/ wk' = [wk EXCEPT ![w] =
                [@ EXCEPT !.embedCalls = @ + 1,
                          !.embedErrAt = IF @ = 0 THEN wk[w].j ELSE @,
                          !.result = "err",
                          !.j = IF wk[w].j < BatchCount(Len(wk[w].chunks), pcfg.batch_size)
                                  THEN @ + 1 ELSE @,
                          !.pc = IF wk[w].j < BatchCount(Len(wk[w].chunks), pcfg.batch_size)
                                   THEN "embed" ELSE "returned"]]
    /\ UNCHANGED <<coll, nextPid, pcfg, permits, nextTask, idxLock, stats, callPc,
                   eventVars, restOfPipe>>
PfEmbed(w) ==
    /\ wk[w].pc = "embed"
    /\ \/ wk' = [wk EXCEPT ![w] = [@ EXCEPT !.embedCalls = @ + 1, !.pc = "lock"]]
       \/ wk' = [wk EXCEPT ![w] =                       \* embed_batch fails
                [@ EXCEPT !.embedCalls = @ + 1, !.embedErrAt = wk[w].j,
                          !.pc = "returned", !.result = "err"]]
       \/ wk' = [wk EXCEPT ![w] =                       \* wrong number of vectors
                [@ EXCEPT !.embedCalls = @ + 1,
                          !.pc = "returned", !.result = "err"]]
    /\ UNCHANGED <<coll, nextPid, pcfg, permits, nextTask, idxLock, stats, callPc,
                   eventVars, restOfPipe>>

\* process_chunk_batch: self.index_service.write().await
PfLockIndex(w) ==
    /\ wk[w].pc = "lock"
    /\ idxLock = NoWorker
    /\ idxLock' = w
    /\ wk' = [wk EXCEPT ![w] =
            [@ EXCEPT !.pc = "upsert", !.i = (wk[w].j - 1) * pcfg.batch_size + 1]]
    /\ UNCHANGED <<coll, nextPid, pcfg, permits, nextTask, stats, callPc,
                   eventVars, restOfPipe>>

\* process_chunk_batch: add_embedding for chunk i of the file. The point id
\* is a fresh uuid; the payload is built from the chunk. An Err counts an
\* error and ends process_file, dropping the lock.
PfUpsert(w) ==
    /\ wk[w].pc = "upsert"
    /\ idxLock = w
    /\ nextPid' = nextPid + 1
    /\ LET k == wk[w].i
           chunk == wk[w].chunks[k]
           embedding == embed_batch(wk[w].chunks)[k]
           last == k = SetMax(BatchOf(Len(wk[w].chunks), pcfg.batch_size, wk[w].j))
       IN  \/ /\ coll.exists
              /\ coll' = [coll EXCEPT !.points = @ \cup
                            {Point(nextPid + 1, wk[w].path, wk[w].rev, CodeOf(chunk),
                                   embedding, TRUE)}]
              /\ wk' = [wk EXCEPT ![w] =
                        [@ EXCEPT !.upserted = Append(@, k),
                                  !.pids = Append(@, nextPid + 1),
                                  !.i = IF last THEN @ ELSE @ + 1,
                                  !.pc = IF last THEN "batchdone" ELSE "upsert"]]
              /\ UNCHANGED <<idxLock, stats>>
           \/ /\ wk' = [wk EXCEPT ![w] = [@ EXCEPT !.pc = "returned", !.result = "err"]]
              /\ stats' = [stats EXCEPT !.errors_encountered = @ + 1]
              /\ idxLock' = NoWorker
              /\ coll' = coll
    /\ UNCHANGED <<pcfg, permits, nextTask, callPc, eventVars, restOfPipe>>

\* process_chunk_batch: the statistics of the batch and its return, and the
\* head of the loop over the batches in process_file
PfBatchDone(w) ==
    /\ wk[w].pc = "batchdone"
    /\ idxLock = w
    /\ idxLock' = NoWorker
    /\ stats' = [stats EXCEPT !.embeddings_generated =
                    @ + Cardinality(BatchOf(Len(wk[w].chunks), pcfg.batch_size, wk[w].j))]
    /\ wk' = [wk EXCEPT ![w] =
            IF wk[w].j < BatchCount(Len(wk[w].chunks), pcfg.batch_size)
              THEN [@ EXCEPT !.j = @ + 1, !.pc = "embed"]
              ELSE [@ EXCEPT !.pc = "stats"]]
    /\ UNCHANGED <<coll, nextPid, pcfg, permits, nextTask, callPc,
                   eventVars, restOfPipe>>

\* content.len() of each file on disk
PipeBytes == [path \in PipePaths |-> ContentLen(PipeDisk(path).content)]

\* process_file: the statistics of the file and Ok(())
PfFinish(w) ==
    /\ wk[w].pc = "stats"
    /\ stats' = [stats EXCEPT
                   !.files_processed = @ + 1,
                   !.chunks_created = @ + Len(wk[w].chunks),
                   !.bytes_processed = @ + PipeBytes[wk[w].path]]
    /\ wk' = [wk EXCEPT ![w] = [@ EXCEPT !.pc = "returned", !.result = "ok"]]
    /\ UNCHANGED <<coll, nextPid, pcfg, permits, nextTask, idxLock, callPc,
                   eventVars, restOfPipe>>

\* the steps of process_file, by whichever worker runs it
ProcessFileStep ==
    \E w \in Workers :
        \/ PfRead(w)
        \/ PfChunk(w)
        \/ PfEmbed(w)
        \/ PfLockIndex(w)
        \/ PfUpsert(w)
        \/ PfBatchDone(w)
        \/ PfFinish(w)

(***************************************************************************)
(* process_files: one task per file behind a semaphore                     *)
(***************************************************************************)
\* the paths handed to process_files
InitialPaths == {FileB, FileBad}

\* process_files up to join_all: a semaphore of max_concurrent_files permits
\* and one spawned task per path
ProcessFilesCall ==
    /\ callPc = "idle" /\ pePc = "idle"
    /\ \E n \in 1..(MaxTasks - nextTask) :
         \E file_paths \in [1..n -> InitialPaths] :
            /\ wk' = [w \in Workers |->
                        IF w \in (nextTask + 1)..(nextTask + n)
                          THEN [IdleWorker EXCEPT !.pc = "spawned",
                                                  !.path = file_paths[w - nextTask]]
                          ELSE wk[w]]
            /\ nextTask' = nextTask + n
    /\ permits' = pcfg.max_concurrent_files
    /\ callPc' = "files"
    /\ UNCHANGED <<coll, nextPid, pcfg, idxLock, stats, eventVars, restOfPipe>>

\* a task: let _permit = semaphore.acquire().await.unwrap(), then the call
\* of process_file
TaskAcquire_noWait(w) ==
    /\ w \in Tasks
    /\ wk[w].pc = "spawned"
    /\ permits' = permits - 1
    /\ wk' = [wk EXCEPT ![w] =
            [@ EXCEPT !.pc = "read", !.permit = TRUE]]
    /\ UNCHANGED <<coll, nextPid, pcfg, nextTask, idxLock, stats, callPc,
                   eventVars, restOfPipe>>
TaskAcquire(w) ==
    /\ w \in Tasks
    /\ wk[w].pc = "spawned"
    /\ permits > 0
    /\ permits' = permits - 1
    /\ wk' = [wk EXCEPT ![w] =
            [@ EXCEPT !.pc = "read", !.permit = TRUE]]
    /\ UNCHANGED <<coll, nextPid, pcfg, nextTask, idxLock, stats, callPc,
                   eventVars, restOfPipe>>

\* a task: process_file panics (here inside the embedder call); the task
\* unwinds, and tokio keeps the panic as the JoinError of the task
TaskPanic(w) ==
    /\ w \in Tasks
    /\ wk[w].pc = "embed"
    /\ wk' = [wk EXCEPT ![w] = [@ EXCEPT !.pc = "returned", !.result = "panic"]]
    /\ UNCHANGED <<coll, nextPid, pcfg, permits, nextTask, idxLock, stats, callPc,
                   eventVars, restOfPipe>>

\* a task: process_file has returned or unwound, the task ends with its
\* result and drops _permit and its locals
TaskExit_leakOnErr(w) ==
    /\ w \in Tasks
    /\ wk[w].pc = "returned"
    /\ permits' = IF wk[w].result = "ok" THEN permits + 1 ELSE permits
    /\ wk' = [wk EXCEPT ![w] =
            [IdleWorker EXCEPT !.pc = "exited", !.result = wk[w].result]]
    /\ UNCHANGED <<coll, nextPid, pcfg, nextTask, idxLock, stats, callPc,
                   eventVars, restOfPipe>>
TaskExit(w) ==
    /\ w \in Tasks
    /\ wk[w].pc = "returned"
    /\ permits' = permits + 1
    /\ wk' = [wk EXCEPT ![w] =
            [IdleWorker EXCEPT !.pc = "exited", !.result = wk[w].result]]
    /\ UNCHANGED <<coll, nextPid, pcfg, nextTask, idxLock, stats, callPc,
                   eventVars, restOfPipe>>

\* process_files after join_all: the results are counted and logged, Ok(())
ProcessFilesReturn ==
    /\ callPc = "files"
    /\ \A w \in Tasks : wk[w].pc \in {"idle", "exited"}
    /\ callPc' = "idle"
    /\ UNCHANGED <<coll, nextPid, pcfg, permits, nextTask, wk, idxLock, stats,
                   eventVars, restOfPipe>>

InitFiles ==
    /\ coll = FreshColl(384)
    /\ nextPid = 0
    /\ IdleNew
    /\ IdleRetrieve
    /\ IdleChunk
    /\ pcfg \in Configs
    /\ IdleWork
    /\ IdleEvents
    /\ IdlePath
    /\ IdleStore
    /\ IdleColls
    /\ IdleSimple
    /\ IdleMerge
    /\ IdleLocks

NextFiles ==
    \/ ProcessFilesCall
    \/ \E w \in Tasks : TaskAcquire(w)
    \/ ProcessFileStep
    \/ \E w \in Tasks : TaskPanic(w)
    \/ \E w \in Tasks : TaskExit(w)
    \/ ProcessFilesReturn

SpecFiles == InitFiles /\ [][NextFiles]_vars

\* the steps of one task; the tokio runtime polls every task that can run
TaskStep(w) ==
    \/ TaskAcquire(w)
    \/ PfRead(w) \/ PfChunk(w) \/ PfEmbed(w) \/ PfLockIndex(w)
    \/ PfUpsert(w) \/ PfBatchDone(w) \/ PfFinish(w)
    \/ TaskExit(w)

\* process_files under a runtime that keeps polling runnable tasks and the
\* caller awaiting join_all
\* the configurations of the fair runs: one or two permits for the tasks
\* (batch_size plays no part for the one-chunk files of InitialPaths)
FairConfigs == [batch_size : {1}, max_concurrent_files : {1, 2}]

InitFilesFair ==
    /\ coll = FreshColl(384)
    /\ nextPid = 0
    /\ IdleNew
    /\ IdleRetrieve
    /\ IdleChunk
    /\ pcfg \in FairConfigs
    /\ IdleWork
    /\ IdleEvents
    /\ IdlePath
    /\ IdleStore
    /\ IdleColls
    /\ IdleSimple
    /\ IdleMerge
    /\ IdleLocks

SpecFilesFair ==
    /\ InitFilesFair
    /\ [][NextFiles]_vars
    /\ WF_vars(\E w \in Tasks : TaskStep(w))
    /\ WF_vars(ProcessFilesReturn)

\* the values of --batch-size and --max-concurrent-files: any usize, here 0
\* and the least values above it
CliConfigs == [batch_size : {0, 1}, max_concurrent_files : {0, 1, 2}]

InitFilesCli ==
    /\ coll = FreshColl(384)
    /\ nextPid = 0
    /\ IdleNew
    /\ IdleRetrieve
    /\ IdleChunk
    /\ pcfg \in CliConfigs
    /\ IdleWork
    /\ IdleEvents
    /\ IdlePath
    /\ IdleStore
    /\ IdleColls
    /\ IdleSimple
    /\ IdleMerge
    /\ IdleLocks

\* process_files with any configuration the command line gives, under the
\* same runtime as SpecFilesFair
SpecFilesCli ==
    /\ InitFilesCli
    /\ [][NextFiles]_vars
    /\ WF_vars(\E w \in Tasks : TaskStep(w))
    /\ WF_vars(ProcessFilesReturn)

\* C25 (as claimed): process_files eventually returns for every
\* configuration the command line accepts, max_concurrent_files = 0 and
\* batch_size = 0 included, when every embedder and index call returns.
C25_ProcessFilesReturns == (callPc = "files") ~> (callPc = "idle")

\* a task is inside process_file from its acquire to process_file's return
InProcessFile(w) ==
    wk[w].pc \in {"read", "chunk", "embed", "lock", "upsert", "batchdone", "stats"}

Holders == {w \in Tasks : wk[w].permit}

C3_AtMostMax ==
    /\ Cardinality({w \in Tasks : InProcessFile(w)}) <= pcfg.max_concurrent_files
    /\ \A w \in Tasks : InProcessFile(w) => wk[w].permit
    /\ permits >= 0
    /\ callPc = "files" => permits + Cardinality(Holders) = pcfg.max_concurrent_files

\* a permit is taken only by a task that has not entered process_file, and
\* given back only by a task whose process_file has returned (Ok or Err)
\* or unwound
C3_PermitStep ==
    \A w \in Tasks :
        /\ (~wk[w].permit /\ wk'[w].permit) => wk[w].pc = "spawned"
        /\ (wk[w].permit /\ ~wk'[w].permit) =>
               wk[w].pc = "returned" /\ wk[w].result \in {"ok", "err", "panic"}

\* C3: while process_files runs, at most max_concurrent_files tasks are
\* inside process_file; each of them holds a permit that it acquired before
\* process_file started and gives back only after process_file has
\* returned, with Ok or with Err.
C3_SemaphoreBound == []C3_AtMostMax /\ [][C3_PermitStep]_vars

\* C3 witness: the semaphore is exhausted with a task inside process_file,
\* another task waits for a permit, and a third has ended on an error.
C3_Witness ==
    /\ callPc = "files" /\ permits = 0
    /\ \E w1, w2, w3 \in Tasks :
          /\ InProcessFile(w1)
          /\ wk[w2].pc = "spawned"
          /\ wk[w3].pc = "exited" /\ wk[w3].result = "err"

\* process_files returns only when every task it spawned has ended, each
\* with the outcome of its process_file
C11_ReturnStep ==
    (callPc = "files" /\ callPc' = "idle") =>
        \A w \in 1..nextTask :
            wk[w].pc = "exited" /\ wk[w].result \in {"ok", "err", "panic"}

\* no task is waiting for a permit or inside process_file, and process_files
\* has returned (a spawned task leaves "spawned" only towards "exited")
C11_Quiescent ==
    /\ callPc = "idle"
    /\ \A w \in Tasks : wk[w].pc \in {"idle", "exited"}

\* C11: every task process_files spawned gets a permit and runs its
\* process_file to the end, whatever errors or panics the other tasks meet,
\* and process_files returns, and only after all of them have ended.
C11_AllFilesFinish == []<>C11_Quiescent /\ [][C11_ReturnStep]_vars

\* C11 witness: with a single permit, process_files has returned after one
\* task failed, one panicked and one, which had to wait, succeeded.
C11_Witness ==
    /\ callPc = "idle" /\ pcfg.max_concurrent_files = 1
    /\ \E w1, w2, w3 \in Tasks :
          /\ wk[w1].pc = "exited" /\ wk[w1].result = "err"
          /\ wk[w2].pc = "exited" /\ wk[w2].result = "panic"
          /\ wk[w3].pc = "exited" /\ wk[w3].result = "ok"

\* the tasks whose process_file has returned an Err
FailedTasks ==
    {w \in Tasks : wk[w].pc \in {"returned", "exited"} /\ wk[w].result = "err"}

\* C12 (as claimed): errors_encountered counts every process_file that
\* failed, one per failed invocation, here for the files of process_files.
C12_OneErrorPerFailure == stats.errors_encountered = Cardinality(FailedTasks)

(***************************************************************************)
(* start_watching, the file watcher and process_events                     *)
(***************************************************************************)
\* the paths of the events a watcher sends
EventKinds == {<<FileA>>, <<FileB>>, <<FileBad, FileB>>, <<FilePng>>}

\* start_watching on an existing directory: a new watcher and channel
\* replace the old ones (on a missing directory it returns Err and leaves
\* the pipeline as it was)
StartWatching ==
    /\ callPc = "idle"
    /\ receiver' = "some"
    /\ chan' = "open"
    /\ queue' = <<>>
    /\ received' = <<>>
    /\ UNCHANGED <<coll, nextPid, workVars, sent, pePc, peResult, evTodo, handled,
                   restOfPipe>>

\* mpsc::channel(1024)
ChannelCapacity == 1024

\* the watcher's handler without a send: the event is dropped
WatcherSend_drop ==
    /\ chan = "open"
    /\ sent < MaxEvents
    /\ \E event \in EventKinds :
          received' = Append(received, event)
    /\ sent' = sent + 1
    /\ UNCHANGED <<coll, nextPid, workVars, receiver, chan, queue, pePc, peResult, evTodo,
                   handled, restOfPipe>>

\* the watcher's handler: tx.blocking_send(event), which waits while the
\* channel is full
WatcherSend ==
    /\ chan = "open"
    /\ sent < MaxEvents
    /\ Len(queue) < ChannelCapacity
    /\ \E event \in EventKinds :
          /\ queue' = Append(queue, event)
          /\ received' = Append(received, event)
    /\ sent' = sent + 1
    /\ UNCHANGED <<coll, nextPid, workVars, receiver, chan, pePc, peResult, evTodo,
                   handled, restOfPipe>>

\* the watcher's handler, which owns the sender, is dropped
WatcherClose ==
    /\ chan = "open"
    /\ chan' = "closed"
    /\ UNCHANGED <<coll, nextPid, workVars, receiver, queue, sent, received, pePc,
                   peResult, evTodo, handled, restOfPipe>>

\* process_events: self.event_receiver.take().ok_or_else(..)?
PeCall ==
    /\ callPc = "idle"
    /\ handled' = <<>>
    /\ receiver' = "none"
    /\ IF receiver = "some"
         THEN /\ pePc' = "recv"
              /\ peResult' = "none"
              /\ callPc' = "events"
         ELSE /\ peResult' = "err"                  \* "File watcher not started"
              /\ UNCHANGED <<pePc, callPc>>
    /\ UNCHANGED <<coll, nextPid, pcfg, permits, nextTask, wk, idxLock, stats,
                   chan, queue, sent, received, evTodo, restOfPipe>>

\* process_events: receiver.recv().await, which yields the oldest event, or
\* None once the channel is closed and empty; None ends the loop with Ok(())
PeRecv ==
    /\ pePc = "recv"
    /\ IF queue # <<>>
         THEN /\ evTodo' = Head(queue)
              /\ handled' = Append(handled, Head(queue))
              /\ queue' = Tail(queue)
              /\ pePc' = "handle"
              /\ UNCHANGED <<peResult, callPc>>
         ELSE /\ chan = "closed"
              /\ pePc' = "idle"
              /\ peResult' = "ok"
              /\ callPc' = "idle"
              /\ UNCHANGED <<evTodo, handled, queue>>
    /\ UNCHANGED <<coll, nextPid, pcfg, permits, nextTask, wk, idxLock, stats,
                   receiver, chan, sent, received, restOfPipe>>

\* handle_file_event: the head of the loop over event.paths; past the last
\* path it returns Ok(()) and process_events awaits the next event
PeNextPath ==
    /\ pePc = "handle"
    /\ wk[EventWorker].pc = "idle"
    /\ IF evTodo = <<>>
         THEN /\ pePc' = "recv"
              /\ UNCHANGED <<wk, evTodo>>
         ELSE IF should_process_file(Head(evTodo))
           THEN /\ wk' = [wk EXCEPT ![EventWorker] =
                            [IdleWorker EXCEPT !.pc = "read", !.path = Head(evTodo),
                                               !.fp0 = stats.files_processed]]
                /\ UNCHANGED <<pePc, evTodo>>
           ELSE /\ evTodo' = Tail(evTodo)
                /\ UNCHANGED <<pePc, wk>>
    /\ UNCHANGED <<coll, nextPid, pcfg, permits, nextTask, idxLock, stats, callPc,
                   receiver, chan, queue, sent, received, peResult, handled,
                   restOfPipe>>

\* handle_file_event: the match on the result of process_file
PeFileDone_propagate ==
    /\ pePc = "handle"
    /\ wk[EventWorker].pc = "returned"
    /\ wk' = [wk EXCEPT ![EventWorker] = IdleWorker]
    /\ IF wk[EventWorker].result = "err"
         THEN /\ pePc' = "idle" /\ peResult' = "err" /\ callPc' = "idle"
              /\ evTodo' = <<>>
              /\ stats' = stats
         ELSE /\ evTodo' = Tail(evTodo)
              /\ UNCHANGED <<pePc, peResult, callPc, stats>>
    /\ UNCHANGED <<coll, nextPid, pcfg, permits, nextTask, idxLock,
                   receiver, chan, queue, sent, received, handled,
                   restOfPipe>>
PeFileDone ==
    /\ pePc = "handle"
    /\ wk[EventWorker].pc = "returned"
    /\ wk' = [wk EXCEPT ![EventWorker] = IdleWorker]
    /\ evTodo' = Tail(evTodo)
    /\ stats' = IF wk[EventWorker].result = "err"
                  THEN [stats EXCEPT !.errors_encountered = @ + 1]
                  ELSE stats
    /\ UNCHANGED <<pePc, peResult, callPc>>
    /\ UNCHANGED <<coll, nextPid, pcfg, permits, nextTask, idxLock,
                   receiver, chan, queue, sent, received, handled,
                   restOfPipe>>

InitEvents ==
    /\ coll = FreshColl(384)
    /\ nextPid = 0
    /\ IdleNew
    /\ IdleRetrieve
    /\ IdleChunk
    /\ pcfg \in [batch_size : BatchSizes, max_concurrent_files : {1}]
    /\ IdleWork
    /\ IdleEvents
    /\ IdlePath
    /\ IdleStore
    /\ IdleColls
    /\ IdleSimple
    /\ IdleMerge
    /\ IdleLocks

NextEvents ==
    \/ StartWatching
    \/ WatcherSend
    \/ WatcherClose
    \/ PeCall
    \/ PeRecv
    \/ PeNextPath
    \/ ProcessFileStep
    \/ PeFileDone

SpecEvents == InitEvents /\ [][NextEvents]_vars

\* the file in the hands of process_events, once its process_file has
\* returned after embed_batch failed first for batch embedErrAt
C4_FailedRun ==
    wk[EventWorker].pc = "returned" /\ wk[EventWorker].embedErrAt > 0

C4_AtFailure ==
    LET r == wk[EventWorker]
        done == (r.embedErrAt - 1) * pcfg.batch_size
    IN  C4_FailedRun =>
          /\ Len(r.upserted) = done /\ Len(r.pids) = done
          /\ \A k \in 1..done :
                /\ r.upserted[k] = k
                /\ Point(r.pids[k], r.path, r.rev, CodeOf(r.chunks[k]),
                         embed_batch(r.chunks)[k], TRUE) \in coll.points
          /\ \A k \in 1..(done - 1) : r.pids[k] < r.pids[k + 1]
          /\ r.embedCalls = r.embedErrAt
          /\ r.result = "err"
          /\ stats.files_processed = r.fp0
          /\ pePc = "handle" /\ peResult = "none"

C4_AfterFailure ==
    (C4_FailedRun /\ wk'[EventWorker] # wk[EventWorker]) =>
        /\ pePc' = "handle" /\ peResult' = "none" /\ callPc' = "events"
        /\ stats'.files_processed = wk[EventWorker].fp0
        /\ coll' = coll

\* C4: when embed_batch fails first for batch j of a file, exactly the
\* chunks of the batches before j have been upserted, in the order the
\* chunker emitted them, no later batch was embedded or upserted,
\* process_file returns Err, files_processed is as it was before the file,
\* and process_events, which dispatched the file, goes on without an error.
C4_PartialBatchFailure == []C4_AtFailure /\ [][C4_AfterFailure]_vars

\* C4 witness: a file of three batches whose second batch failed to embed.
C4_Witness ==
    /\ C4_FailedRun
    /\ wk[EventWorker].embedErrAt = 2
    /\ BatchCount(Len(wk[EventWorker].chunks), pcfg.batch_size) = 3
    /\ Len(wk[EventWorker].upserted) = 1

\* C5 (as claimed): the index holds one point per chunk of a (path,
\* revision), however often process_file ran on the unchanged file.
C5_OnePointPerChunk ==
    \A p, q \in coll.points :
        (p.path = q.path /\ p.rev = q.rev /\ p.code = q.code) => p.pid = q.pid

IsPrefix(s, t) == Len(s) <= Len(t) /\ SubSeq(t, 1, Len(s)) = s

\* events are taken oldest first, and the next one only after every path of
\* the one in hand has been dealt with
C10_InOrder ==
    /\ pePc # "idle" => IsPrefix(handled, received) /\ received = handled \o queue
    /\ pePc = "recv" => evTodo = <<>> /\ wk[EventWorker].pc = "idle"
    /\ wk[EventWorker].pc # "idle" =>
          pePc = "handle" /\ evTodo # <<>> /\ wk[EventWorker].path = Head(evTodo)

\* after a file has failed the loop goes on with the rest of the event
C10_FailureStep ==
    (/\ wk[EventWorker].pc = "returned" /\ wk[EventWorker].result = "err"
     /\ wk'[EventWorker] # wk[EventWorker]) =>
        /\ pePc' = "handle" /\ peResult' = "none" /\ callPc' = "events"
        /\ evTodo' = Tail(evTodo)

C10_Returns == peResult' # peResult /\ peResult' \in {"ok", "err"}

C10_ReturnOnlyWhenClosed == C10_Returns => chan = "closed"

\* C10 (as claimed): process_events handles the events one at a time in the
\* order received, no failure of a file ends the loop or makes it return an
\* error, and it returns only when the watcher stream has closed.
C10_AsClaimed ==
    []C10_InOrder /\ [][C10_FailureStep /\ C10_ReturnOnlyWhenClosed]_vars

C10_ReturnAmended ==
    /\ (C10_Returns /\ pePc # "idle") =>
          /\ peResult' = "ok"
          /\ chan = "closed" /\ queue = <<>> /\ handled = received
    /\ (C10_Returns /\ pePc = "idle") =>
          /\ peResult' = "err"
          /\ receiver = "none" /\ handled' = <<>>
          /\ UNCHANGED <<coll, stats, queue>>

\* C10 (amended): process_events handles the events one at a time in the
\* order received and no failure of a file ends the loop or makes it return
\* an error; once it has taken the receiver it returns only when the
\* stream has closed and every event sent has been handled, with Ok;
\* without a receiver (start_watching was not called, or an earlier call
\* took the receiver) it returns an error at once, having handled nothing.
C10_EventLoop ==
    []C10_InOrder /\ [][C10_FailureStep /\ C10_ReturnAmended]_vars

\* C10 witness: process_events returned Ok after two events, one of which
\* held a file that failed and a file that was processed.
C10_Witness ==
    /\ peResult = "ok" /\ chan = "closed"
    /\ Len(handled) = 2 /\ <<FileBad, FileB>> \in {handled[1], handled[2]}
    /\ stats.errors_encountered > 0 /\ stats.files_processed > 0

\* the points the index holds for a path
PointsOf(path) == {p \in coll.points : p.path = path}

\* C13 (as claimed): once the events for a path have been processed, the
\* index holds for that path what indexing the file's final content alone
\* gives: one point per chunk of that content, under its revision.
C13_ConvergesToFinal ==
    \A path \in PipePaths :
        /\ Cardinality(PointsOf(path)) <= Len(PipeChunks[path])
        /\ \A p \in PointsOf(path) :
              p.rev = generate_file_hash(PipeDisk(path).content)

(***************************************************************************)
(* run_indexer: the event loop raced against the shutdown signal           *)
(***************************************************************************)
\* the awaits of process_file at which the future of process_events is
\* suspended on I/O: the read of the file, the HTTP call of embed_batch and
\* the upsert request of add_embedding
AwaitPoints == {"read", "embed", "upsert"}

\* tokio::select!: the shutdown branch completes first, so the future of
\* process_events is dropped where it is suspended, in recv() or in an await
\* of the file it is handling. Its locals go with it: the receiver, the
\* event in hand, the index lock guard. An upsert request in flight may or
\* may not have reached the store. run_indexer goes on to the statistics.
ShutdownSignal ==
    /\ callPc = "events"
    /\ \/ pePc = "recv"
       \/ pePc = "handle" /\ wk[EventWorker].pc \in AwaitPoints
    /\ callPc' = "stopped"
    /\ pePc' = "idle"
    /\ chan' = "closed"
    /\ queue' = <<>>
    /\ evTodo' = <<>>
    /\ idxLock' = NoWorker
    /\ wk' = [wk EXCEPT ![EventWorker] =
            IF pePc = "handle" THEN [@ EXCEPT !.pc = "cancelled"] ELSE @]
    /\ IF pePc = "handle" /\ wk[EventWorker].pc = "upsert" /\ coll.exists
         THEN LET r == wk[EventWorker]
              IN  \/ UNCHANGED <<coll, nextPid>>
                  \/ /\ nextPid' = nextPid + 1
                     /\ coll' = [coll EXCEPT !.points = @ \cup
                                   {Point(nextPid + 1, r.path, r.rev, CodeOf(r.chunks[r.i]),
                                          embed_batch(r.chunks)[r.i], TRUE)}]
         ELSE UNCHANGED <<coll, nextPid>>
    /\ UNCHANGED <<pcfg, permits, nextTask, stats, receiver, sent, received,
                   peResult, handled, restOfPipe>>

NextIndexer ==
    \/ NextEvents
    \/ ShutdownSignal

SpecIndexer == InitEvents /\ [][NextIndexer]_vars

\* C14 (as claimed): when the indexer has left the event loop on a shutdown
\* signal, the file that was being processed has run to the end of its
\* process_file: it was not cancelled with batches still to embed or upsert.
C14_InFlightFileCompletes ==
    callPc = "stopped" =>
        /\ wk[EventWorker].pc # "cancelled"
        /\ \A k \in 1..Len(wk[EventWorker].chunks) :
               \E p \in PointsOf(wk[EventWorker].path) :
                   p.code = CodeOf(wk[EventWorker].chunks[k])


(***************************************************************************)
(* process_file called beside process_files                                *)
(***************************************************************************)
\* a caller of the public process_file that is not a task of process_files,
\* as handle_file_event and the test-indexer binary are
DirectCaller == EventWorker

\* pipeline.process_file(path) from that caller: process_file starts at once,
\* the semaphore is local to process_files and is not seen here
DirectCall ==
    /\ wk[DirectCaller].pc = "idle"
    /\ pePc = "idle"
    /\ wk' = [wk EXCEPT ![DirectCaller] =
            [IdleWorker EXCEPT !.pc = "read", !.path = FileB]]
    /\ UNCHANGED <<coll, nextPid, pcfg, permits, nextTask, idxLock, stats, callPc,
                   eventVars, restOfPipe>>

\* a pipeline with a single permit, max_concurrent_files = 1
InitDirect ==
    /\ coll = FreshColl(384)
    /\ nextPid = 0
    /\ IdleNew
    /\ IdleRetrieve
    /\ IdleChunk
    /\ pcfg = [batch_size |-> 1, max_concurrent_files |-> 1]
    /\ IdleWork
    /\ IdleEvents
    /\ IdlePath
    /\ IdleStore
    /\ IdleColls
    /\ IdleSimple
    /\ IdleMerge
    /\ IdleLocks

NextDirect ==
    \/ NextFiles
    \/ DirectCall

SpecDirect == InitDirect /\ [][NextDirect]_vars

\* process_file has reached its embedding call or is past it
EmbedStarted(w) ==
    wk[w].pc \in {"embed", "lock", "upsert", "batchdone", "stats"}

\* of two calls of process_file in progress among the callers S, at most one
\* has started embedding
Serialized(S) ==
    \A w1, w2 \in S :
        (w1 # w2 /\ InProcessFile(w1) /\ InProcessFile(w2)) =>
            ~(EmbedStarted(w1) /\ EmbedStarted(w2))

GetLanguage ==
    /\ fpPath # <<>>
    /\ ~fpLang.done
    /\ fpLang' = [done |-> TRUE, val |-> get_language_from_path(fpPath)]
    /\ UNCHANGED <<fpPath, fpOk, restOfPath>>

\* handle_file_event: if self.should_process_file(&path)
ShouldProcess ==
    /\ fpPath # <<>>
    /\ ~fpOk.done
    /\ fpOk' = [done |-> TRUE, val |-> should_process_file(fpPath)]
    /\ UNCHANGED <<fpPath, fpLang, restOfPath>>

InitPath ==
    /\ fpPath \in EligPaths \cup PipePaths
    /\ fpLang = NoLang
    /\ fpOk = NoVerdict
    /\ IdleColl
    /\ IdleNew
    /\ IdleRetrieve
    /\ IdleChunk
    /\ IdlePipe
    /\ IdleStore
    /\ IdleColls
    /\ IdleSimple
    /\ IdleMerge
    /\ IdleLocks

NextPath ==
    \/ GetLanguage
    \/ ShouldProcess

SpecPath == InitPath /\ [][NextPath]_vars

\* C17 (as claimed): the language handed to the chunker is the canonical
\* tag of the lower-cased extension: a parser is registered under the tag
\* of an .rs file, which is rust, and a file whose extension is not a
\* known one, as foo.unknown, is tagged text.
C17_CanonicalTag ==
    fpLang.done =>
        /\ (HasExtension(fpPath) /\ Concat(Extension(fpPath)) = "rs") =>
               fpLang.val = "rust" /\ has_parser(fpLang.val)
        /\ (HasExtension(fpPath) /\ Concat(Extension(fpPath)) \notin supported_extensions) =>
               fpLang.val = "text"

\* the reject rules: an ignored directory in the path, a binary or media
\* extension, a system file name
IgnoredDirs ==
    {<<"t", "a", "r", "g", "e", "t">>, <<"v", "e", "n", "d", "o", "r">>,
     <<".", "g", "i", "t">>, <<"d", "e", "b", "u", "g">>,
     <<"n", "o", "d", "e", "_", "m", "o", "d", "u", "l", "e", "s">>,
     <<".", "f", "a", "s", "t", "e", "m", "b", "e", "d", "_", "c", "a", "c", "h", "e">>}

Separators == {"/", "\\"}

InIgnoredDir(path) ==
    \E dir \in IgnoredDirs, sep \in Separators :
        \/ PathContains(path, <<sep>> \o dir \o <<sep>>)
        \/ dir = TargetDir /\ (StartsWith(path, dir \o <<sep>>) \/ path = dir)

Rejected(path) ==
    \/ InIgnoredDir(path)
    \/ Concat(Extension(path)) \in binary_extensions
    \/ Join(FileName(path)) \in system_files

\* the accept rules: an allowed extension, or no extension and a document
\* name at the start of the file name
Allowed(path) ==
    \/ Concat(Extension(path)) \in supported_extensions
    \/ /\ ~HasExtension(path)
       /\ \E name \in common_text_files :
              StartsWith(UpperChars(FileName(path)), name)

C19_Examples ==
    /\ fpPath = FooPng => ~fpOk.val
    /\ fpPath = FooRsMixed => fpOk.val
    /\ fpPath = Readme => fpOk.val
    /\ fpPath = ReadmeBak => ~fpOk.val

\* C19 (as claimed): a path is accepted iff no reject rule matches it and
\* an accept rule does (so a reject rule wins over the allow-list); foo.png
\* is rejected, foo.Rs accepted, README accepted, README.bak rejected.
C19_AcceptedIffEligible ==
    fpOk.done =>
        /\ fpOk.val <=> (~Rejected(fpPath) /\ Allowed(fpPath))
        /\ C19_Examples

\* C19 (amended): a path is accepted iff it is an existing regular file, no
\* reject rule matches it and an accept rule does; the four examples are
\* files and come out as claimed.
C19_FileAcceptedIffEligible ==
    fpOk.done =>
        /\ fpOk.val <=> (is_file(fpPath) /\ ~Rejected(fpPath) /\ Allowed(fpPath))
        /\ C19_Examples

\* C19 witness: a file with an allowed extension inside an ignored
\* directory has been tested and rejected.
C19_Witness ==
    /\ fpOk.done /\ ~fpOk.val
    /\ is_file(fpPath)
    /\ InIgnoredDir(fpPath)
    /\ Concat(Extension(fpPath)) \in supported_extensions


(***************************************************************************)
(* InMemoryVectorStore: one collection, insert_chunk, delete_chunk, search *)
(***************************************************************************)
\* the collection the store holds, and its dimension
VsCollection == "code"

VsDimension == 2

\* Option<f32> of complexity_score, Option<ComplexityRange> of the filters
NoComplexity == [some |-> FALSE, val |-> 0]

SomeComplexity(x) == [some |-> TRUE, val |-> x]

NoRange == [some |-> FALSE, min |-> 0, max |-> 0]

\* CodeChunk with its ChunkMetadata, the fields the filters look at
VsChunk(id, path, language, symbol, repository, branch, tags, complexity_score) ==
    [id |-> id, path |-> path, language |-> language, symbol |-> symbol,
     repository |-> repository, branch |-> branch, tags |-> tags,
     complexity_score |-> complexity_score]

PathSA == <<"s", "/", "a">>

PathSB == <<"s", "/", "b">>

PathTA == <<"t", "/", "a">>

\* the chunks and embeddings handed to insert_chunk; two of them have the
\* id c1, so the later one replaces the earlier
VsInserts ==
    {[chunk |-> VsChunk("c1", PathSA, "rust", "f", "r1", "main", {"t1"}, SomeComplexity(1)),
      embedding |-> <<1, 0>>],
     [chunk |-> VsChunk("c1", PathSA, "rust", "f", "r1", "dev", {"t1"}, SomeComplexity(9)),
      embedding |-> <<0, 0>>],
     [chunk |-> VsChunk("c2", PathSB, "go", None, "r1", "main", {}, SomeComplexity(9)),
      embedding |-> <<1, 1>>],
     [chunk |-> VsChunk("c3", PathTA, "rust", "g", None, None, {"t2"}, SomeComplexity(5)),
      embedding |-> <<0 - 1, 0>>],
     [chunk |-> VsChunk("c4", PathSA, "rust", "f", "r2", "main", {"t1", "t2"}, NoComplexity),
      embedding |-> <<2, 0>>],
     [chunk |-> VsChunk("c5", PathSA, "rust", "f", "r1", "main", {"t1"}, SomeComplexity(2)),
      embedding |-> <<1>>]}

\* SearchFilters::default() and the filters of the searches
NoFilters ==
    [some |-> TRUE, repository |-> None, branch |-> None, languages |-> {},
     paths |-> {}, symbols |-> {}, tags |-> {}, complexity_range |-> NoRange]

VsFilters ==
    {[some |-> FALSE],
     NoFilters,
     [NoFilters EXCEPT !.repository = "r1"],
     [NoFilters EXCEPT !.branch = "main"],
     [NoFilters EXCEPT !.languages = {"rust", "python"}],
     [NoFilters EXCEPT !.paths = {<<"a">>, <<"x">>}],
     [NoFilters EXCEPT !.symbols = {"f"}],
     [NoFilters EXCEPT !.tags = {"t2", "t3"}],
     [NoFilters EXCEPT !.repository = "r1", !.languages = {"rust"}],
     [NoFilters EXCEPT !.complexity_range = [some |-> TRUE, min |-> 0, max |-> 3]]}

VsQueries == {<<1, 0>>, <<1, 2>>, <<0, 0>>, <<1>>}

\* str::ends_with
EndsWith(s, pat) ==
    Len(pat) <= Len(s) /\ SubSeq(s, Len(s) - Len(pat) + 1, Len(s)) = pat

\* matches_filters: repository, branch, languages, paths, symbols, tags;
\* the other fields of SearchFilters are not read
matches_filters(chunk, filters) ==
    IF filters.repository # None /\ chunk.repository # filters.repository THEN FALSE
    ELSE IF filters.branch # None /\ chunk.branch # filters.branch THEN FALSE
    ELSE IF filters.languages # {} /\ chunk.language \notin filters.languages THEN FALSE
    ELSE IF filters.paths # {}
              /\ ~\E pattern \in filters.paths :
                     PathContains(chunk.path, pattern) \/ EndsWith(chunk.path, pattern)
      THEN FALSE
    ELSE IF filters.symbols # {} /\ chunk.symbol \notin filters.symbols THEN FALSE
    ELSE IF filters.tags # {} /\ filters.tags \cap chunk.tags = {} THEN FALSE
    ELSE TRUE

RECURSIVE DotFrom(_, _, _)
DotFrom(a, b, i) ==
    IF i > Len(a) THEN 0 ELSE a[i] * b[i] + DotFrom(a, b, i + 1)

Abs(x) == IF x < 0 THEN 0 - x ELSE x

\* cosine_similarity(a, b) = dot / (|a| * |b|), and 0.0 for a zero vector
\* or unequal lengths. The score is kept as the fraction c * |c| of the
\* cosine c, which orders scores as c does.
cosine_similarity(a, b) ==
    IF Len(a) # Len(b) THEN [num |-> 0, den |-> 1]
    ELSE LET dot == DotFrom(a, b, 1)
             na == DotFrom(a, a, 1)
             nb == DotFrom(b, b, 1)
         IN  IF na = 0 \/ nb = 0 THEN [num |-> 0, den |-> 1]
             ELSE [num |-> dot * Abs(dot), den |-> na * nb]

\* b.score.partial_cmp(&a.score) on two scores
ScoreLess(x, y) == x.num * y.den < y.num * x.den

\* insert_chunk: the dimension test, then vectors.insert(chunk.id, entry);
\* the results of an earlier search are no longer looked at
InsertChunk ==
    /\ \E ins \in VsInserts :
          IF Len(ins.embedding) # VsDimension
            THEN vsStore' = vsStore
            ELSE vsStore' = [id \in DOMAIN vsStore \cup {ins.chunk.id} |->
                                IF id = ins.chunk.id THEN ins ELSE vsStore[id]]
    /\ vsReq' = NoSearch
    /\ vsRes' = NoResults
    /\ UNCHANGED restOfStore

\* delete_chunk: vectors.remove(chunk_id)
DeleteChunk ==
    /\ \E chunk_id \in DOMAIN vsStore :
          vsStore' = [id \in DOMAIN vsStore \ {chunk_id} |-> vsStore[id]]
    /\ vsReq' = NoSearch
    /\ vsRes' = NoResults
    /\ UNCHANGED restOfStore

\* search: the loop over coll.vectors, one SearchResult per entry that
\* passes the filters
Scored(store, query_embedding, filters) ==
    {[chunk_id |-> id, chunk |-> store[id].chunk,
      score |-> cosine_similarity(query_embedding, store[id].embedding)] :
        id \in {i \in DOMAIN store :
                   ~filters.some \/ matches_filters(store[i].chunk, filters)}}

\* results.sort_by(score, highest first): the orders a stable sort can
\* leave, the entries coming from the HashMap in any order
RECURSIVE SortedOrders(_)
SortedOrders(S) ==
    IF S = {} THEN {<<>>}
    ELSE UNION {{<<m>> \o t : t \in SortedOrders(S \ {m})} :
                  m \in {x \in S : \A y \in S : ~ScoreLess(x.score, y.score)}}

\* results.truncate(limit)
Truncate(seq, limit) == SubSeq(seq, 1, Min(limit, Len(seq)))

\* the result lists search may return
SearchResults(store, query_embedding, limit, filters) ==
    {Truncate(seq, limit) : seq \in SortedOrders(Scored(store, query_embedding, filters))}

\* search(collection, query_embedding, limit, filters)
Search ==
    /\ \E collection \in {VsCollection, "other"}, query_embedding \in VsQueries,
          limit \in 0..MaxK, filters \in VsFilters :
          /\ vsReq' = [collection |-> collection, query_embedding |-> query_embedding,
                       limit |-> limit, filters |-> filters]
          /\ IF collection # VsCollection \/ Len(query_embedding) # VsDimension
               THEN vsRes' = [done |-> TRUE, ok |-> FALSE, results |-> <<>>]
               ELSE \E results \in SearchResults(vsStore, query_embedding, limit, filters) :
                       vsRes' = [done |-> TRUE, ok |-> TRUE, results |-> results]
    /\ UNCHANGED <<vsStore, restOfStore>>

InitStore ==
    /\ vsStore = <<>>
    /\ vsReq = NoSearch
    /\ vsRes = NoResults
    /\ IdleColl
    /\ IdleNew
    /\ IdleRetrieve
    /\ IdleChunk
    /\ IdlePipe
    /\ IdlePath
    /\ IdleColls
    /\ IdleSimple
    /\ IdleMerge
    /\ IdleLocks

NextStore ==
    \/ InsertChunk
    \/ DeleteChunk
    \/ Search

SpecStore == InitStore /\ [][NextStore]_vars

\* a chunk satisfies every filter that is given
SatisfiesAll(chunk, filters) ==
    /\ filters.repository # None => chunk.repository = filters.repository
    /\ filters.branch # None => chunk.branch = filters.branch
    /\ filters.languages # {} => chunk.language \in filters.languages
    /\ filters.paths # {} =>
           \E pattern \in filters.paths : PathContains(chunk.path, pattern)
    /\ filters.symbols # {} => chunk.symbol \in filters.symbols
    /\ filters.tags # {} => filters.tags \cap chunk.tags # {}
    /\ filters.complexity_range.some =>
           /\ chunk.complexity_score.some
           /\ chunk.complexity_score.val >= filters.complexity_range.min
           /\ chunk.complexity_score.val <= filters.complexity_range.max

\* the stored chunks that satisfy the filters of the last search
Filtered ==
    {id \in DOMAIN vsStore :
        ~vsReq.filters.some \/ SatisfiesAll(vsStore[id].chunk, vsReq.filters)}

\* C20 (as claimed): a successful search returns the top-k of the filtered
\* set: at most limit results, each a stored chunk that satisfies all the
\* given filters, in descending order of score, and no stored chunk that
\* satisfies the filters and is left out scores strictly higher than a
\* returned one.
C20_TopKOfFiltered ==
    (vsRes.done /\ vsRes.ok) =>
        LET results == vsRes.results
            returned == {results[i].chunk_id : i \in DOMAIN results}
        IN  /\ Len(results) <= vsReq.limit
            /\ returned \subseteq Filtered
            /\ \A i, j \in DOMAIN results :
                   i < j => ~ScoreLess(results[i].score, results[j].score)
            /\ \A id \in Filtered \ returned : \A i \in DOMAIN results :
                   ~ScoreLess(results[i].score,
                              cosine_similarity(vsReq.query_embedding, vsStore[id].embedding))

(***************************************************************************)
(* InMemoryVectorStore: collections of declared dimension, and the calls   *)
(* that create, fill and delete them                                       *)
(***************************************************************************)
VcNames == {"a", "b"}

VcDims == {1, 2}

VcIds == {"c1", "c2"}

\* CodeChunk: its id and its code
VcChunks == {[id |-> "c1", code |-> "x"], [id |-> "c2", code |-> "y"]}

VcEmbeddings == {<<1>>, <<1, 0>>}

VcPairs == {[chunk |-> c, embedding |-> e] : c \in VcChunks, e \in VcEmbeddings}

\* the slices handed to insert_chunks: up to two (chunk, embedding) pairs
VcBatches ==
    {<<>>} \cup {<<p>> : p \in VcPairs}
      \cup {<<p, q>> : p \in VcPairs, q \in {x \in VcPairs : x.chunk.id = "c1"}}

VectorEntry(chunk, embedding) == [chunk |-> chunk, embedding |-> embedding]

\* coll.vectors.get(id) of a collection of the store
StoredEntry(colls, collection, id) ==
    IF collection \in DOMAIN colls /\ id \in DOMAIN colls[collection].vectors
      THEN SomeEntry(colls[collection].vectors[id])
      ELSE NoEntry

\* create_collection: collections.insert(name, Collection {dimension, vectors: HashMap::new()})
create_collection(colls, name, dimension) ==
    [n \in DOMAIN colls \cup {name} |->
        IF n = name THEN [dimension |-> dimension, vectors |-> <<>>] ELSE colls[n]]

\* delete_collection: collections.remove(name)
delete_collection(colls, name) == [n \in DOMAIN colls \ {name} |-> colls[n]]

\* insert_chunk: Err for an unknown collection or another embedding length,
\* else vectors.insert(chunk.id, entry)
insert_chunk(colls, collection, chunk, embedding) ==
    IF collection \notin DOMAIN colls THEN [ok |-> FALSE, colls |-> colls]
    ELSE IF Len(embedding) # colls[collection].dimension
      THEN [ok |-> FALSE, colls |-> colls]
    ELSE [ok |-> TRUE,
          colls |-> [colls EXCEPT ![collection].vectors =
                        [id \in DOMAIN @ \cup {chunk.id} |->
                            IF id = chunk.id THEN VectorEntry(chunk, embedding) ELSE @[id]]]]

\* insert_chunks: insert_chunk on each pair in turn, `?` on the first Err;
\* at is the index of the pair that failed
RECURSIVE insert_chunks_from(_, _, _, _)
insert_chunks_from(colls, collection, chunks, i) ==
    IF i > Len(chunks) THEN [ok |-> TRUE, colls |-> colls, at |-> 0]
    ELSE LET r == insert_chunk(colls, collection, chunks[i].chunk, chunks[i].embedding)
         IN  IF ~r.ok THEN [ok |-> FALSE, colls |-> colls, at |-> i]
             ELSE insert_chunks_from(r.colls, collection, chunks, i + 1)

insert_chunks(colls, collection, chunks) == insert_chunks_from(colls, collection, chunks, 1)

\* update_chunk without the test of the embedding length
update_chunk_noCheck(colls, collection, chunk_id, chunk, embedding) ==
    IF collection \notin DOMAIN colls THEN [ok |-> FALSE, colls |-> colls]
    ELSE [ok |-> TRUE,
          colls |-> [colls EXCEPT ![collection].vectors =
                        [id \in DOMAIN @ \cup {chunk_id} |->
                            IF id = chunk_id THEN VectorEntry(chunk, embedding) ELSE @[id]]]]

\* update_chunk: Err for an unknown collection or another embedding length,
\* else vectors.insert(chunk_id, entry)
update_chunk(colls, collection, chunk_id, chunk, embedding) ==
    IF collection \notin DOMAIN colls THEN [ok |-> FALSE, colls |-> colls]
    ELSE IF Len(embedding) # colls[collection].dimension
      THEN [ok |-> FALSE, colls |-> colls]
    ELSE [ok |-> TRUE,
          colls |-> [colls EXCEPT ![collection].vectors =
                        [id \in DOMAIN @ \cup {chunk_id} |->
                            IF id = chunk_id THEN VectorEntry(chunk, embedding) ELSE @[id]]]]

\* delete_chunk: Err for an unknown collection, else vectors.remove(chunk_id)
delete_chunk(colls, collection, chunk_id) ==
    IF collection \notin DOMAIN colls THEN [ok |-> FALSE, colls |-> colls]
    ELSE [ok |-> TRUE,
          colls |-> [colls EXCEPT ![collection].vectors =
                        [id \in DOMAIN @ \ {chunk_id} |-> @[id]]]]

CreateCollection ==
    /\ \E name \in VcNames, dimension \in VcDims :
          vcColls' = create_collection(vcColls, name, dimension)
    /\ vcLast' = NoOp
    /\ UNCHANGED restOfColls

DeleteCollection ==
    /\ \E name \in VcNames : vcColls' = delete_collection(vcColls, name)
    /\ vcLast' = NoOp
    /\ UNCHANGED restOfColls

InsertChunkInto ==
    /\ \E collection \in VcNames, p \in VcPairs :
          LET r == insert_chunk(vcColls, collection, p.chunk, p.embedding)
          IN  /\ vcColls' = r.colls
              /\ vcLast' = [done |-> TRUE, op |-> "insert_chunk", ok |-> r.ok,
                            collection |-> collection, chunk_id |-> p.chunk.id,
                            embedding |-> p.embedding,
                            before |-> StoredEntry(vcColls, collection, p.chunk.id),
                            earlier |-> {}]
    /\ UNCHANGED restOfColls

\* insert_chunks; vcLast is about the pair that failed, or about the last
\* pair when none did, and earlier holds the entries that pairs before it in
\* the slice wrote under the same id
InsertChunks ==
    /\ \E collection \in VcNames, chunks \in VcBatches \ {<<>>} :
          LET r == insert_chunks(vcColls, collection, chunks)
              at == IF r.ok THEN Len(chunks) ELSE r.at
              p == chunks[at]
          IN  /\ vcColls' = r.colls
              /\ vcLast' = [done |-> TRUE, op |-> "insert_chunks", ok |-> r.ok,
                            collection |-> collection, chunk_id |-> p.chunk.id,
                            embedding |-> p.embedding,
                            before |-> StoredEntry(vcColls, collection, p.chunk.id),
                            earlier |-> {SomeEntry(chunks[j]) :
                                           j \in {k \in 1..(at - 1) :
                                                    chunks[k].chunk.id = p.chunk.id}}]
    /\ UNCHANGED restOfColls

\* insert_chunks(&[]): no insert, Ok(vec![])
InsertNoChunks ==
    /\ \E collection \in VcNames :
          vcColls' = insert_chunks(vcColls, collection, <<>>).colls
    /\ vcLast' = NoOp
    /\ UNCHANGED restOfColls

UpdateChunk ==
    /\ \E collection \in VcNames, chunk_id \in VcIds, p \in VcPairs :
          LET r == update_chunk(vcColls, collection, chunk_id, p.chunk, p.embedding)
          IN  /\ vcColls' = r.colls
              /\ vcLast' = [done |-> TRUE, op |-> "update_chunk", ok |-> r.ok,
                            collection |-> collection, chunk_id |-> chunk_id,
                            embedding |-> p.embedding,
                            before |-> StoredEntry(vcColls, collection, chunk_id),
                            earlier |-> {}]
    /\ UNCHANGED restOfColls

DeleteChunkFrom ==
    /\ \E collection \in VcNames, chunk_id \in VcIds :
          vcColls' = delete_chunk(vcColls, collection, chunk_id).colls
    /\ vcLast' = NoOp
    /\ UNCHANGED restOfColls

InitColls ==
    /\ vcColls = <<>>
    /\ vcLast = NoOp
    /\ IdleColl
    /\ IdleNew
    /\ IdleRetrieve
    /\ IdleChunk
    /\ IdlePipe
    /\ IdlePath
    /\ IdleStore
    /\ IdleSimple
    /\ IdleMerge
    /\ IdleLocks

NextColls ==
    \/ CreateCollection
    \/ DeleteCollection
    \/ InsertChunkInto
    \/ InsertChunks
    \/ InsertNoChunks
    \/ UpdateChunk
    \/ DeleteChunkFrom

SpecColls == InitColls /\ [][NextColls]_vars

\* the last insert or update had an embedding of another length than the
\* dimension of its collection
WrongLength ==
    /\ vcLast.done
    /\ vcLast.collection \in DOMAIN vcColls
    /\ Len(vcLast.embedding) # vcColls[vcLast.collection].dimension

\* C21: every stored vector has the length of the declared dimension of its
\* collection; an insert or update with an embedding of another length
\* returns an error and leaves the entry stored under that chunk's id as it
\* was before that insert (before the call, or as an earlier pair of the
\* same insert_chunks call wrote it).
C21_StoredDimension ==
    /\ \A n \in DOMAIN vcColls : \A id \in DOMAIN vcColls[n].vectors :
           Len(vcColls[n].vectors[id].embedding) = vcColls[n].dimension
    /\ WrongLength =>
           /\ ~vcLast.ok
           /\ LET now == StoredEntry(vcColls, vcLast.collection, vcLast.chunk_id)
              IN  IF vcLast.earlier = {} THEN now = vcLast.before
                  ELSE now \in vcLast.earlier

\* an update with an embedding of another length was refused for a chunk
\* that is stored, in a store that holds two collections of different
\* dimension
C21_Witness ==
    /\ WrongLength
    /\ vcLast.op = "update_chunk"
    /\ ~vcLast.ok
    /\ vcLast.before.some
    /\ \E n, o \in DOMAIN vcColls :
           /\ vcColls[n].dimension # vcColls[o].dimension
           /\ DOMAIN vcColls[o].vectors # {}

(***************************************************************************)
(* SimpleChunker::chunk_file: the outer loop, one pass per step            *)
(***************************************************************************)
\* passes through the outer loop after which the model follows a call no further
MaxIters == 4

\* ChunkingConfig::default(), the config of test_simple_chunker, and two
\* configs without overlap
DefaultChunking ==
    [max_chunk_size |-> 1000, min_chunk_size |-> 100, overlap_size |-> 100]

TestChunking == [max_chunk_size |-> 20, min_chunk_size |-> 5, overlap_size |-> 10]

SimpleConfigs ==
    {DefaultChunking, TestChunking,
     [max_chunk_size |-> 1000, min_chunk_size |-> 0, overlap_size |-> 0],
     [max_chunk_size |-> 20, min_chunk_size |-> 0, overlap_size |-> 60]}

\* byte lengths of the lines of content
SimpleLineLens == {6, 40, 1200}

SimpleMaxLines == 4

SimpleContents ==
    UNION {[1..n -> SimpleLineLens] : n \in 0..SimpleMaxLines}

\* the inner loop: take lines while current_chars + len <= max_chunk_size
RECURSIVE BuildChunk(_, _, _, _)
BuildChunk(lines, max, end_line, current_chars) ==
    IF end_line < Len(lines) /\ current_chars + lines[end_line + 1] <= max
      THEN BuildChunk(lines, max, end_line + 1, current_chars + lines[end_line + 1] + 1)
      ELSE [end_line |-> end_line, current_chars |-> current_chars]

\* config.overlap_size / 50
overlap_lines(config) == config.overlap_size \div 50

\* lines.is_empty(): Ok(chunks) with no chunk
ScReturnEmpty ==
    /\ scPc = "loop"
    /\ Len(scIn.lines) = 0
    /\ scPc' = "done"
    /\ UNCHANGED <<scIn, scStart, scChunks, scIters, restOfSimple>>

\* one pass through the body of `while start_line < lines.len()`
ScIterate ==
    /\ scPc = "loop"
    /\ scStart < Len(scIn.lines)
    /\ scIters < MaxIters
    /\ scIters' = scIters + 1
    /\ LET built == BuildChunk(scIn.lines, scIn.config.max_chunk_size, scStart, 0)
           end_line == IF built.end_line = scStart THEN scStart + 1 ELSE built.end_line
       IN  IF built.current_chars < scIn.config.min_chunk_size /\ end_line < Len(scIn.lines)
             THEN \* continue
                  UNCHANGED <<scStart, scChunks>>
             ELSE /\ scChunks' = Append(scChunks, [start_line |-> scStart + 1, end_line |-> end_line])
                  /\ scStart' = IF end_line > overlap_lines(scIn.config)
                                  THEN end_line - overlap_lines(scIn.config)
                                  ELSE end_line
    /\ UNCHANGED <<scIn, scPc, restOfSimple>>

\* the loop condition fails: Ok(chunks)
ScReturn ==
    /\ scPc = "loop"
    /\ Len(scIn.lines) > 0
    /\ scStart >= Len(scIn.lines)
    /\ scPc' = "done"
    /\ UNCHANGED <<scIn, scStart, scChunks, scIters, restOfSimple>>

InitSimple ==
    /\ scIn \in {[lines |-> l, config |-> c] : l \in SimpleContents, c \in SimpleConfigs}
    /\ scStart = 0
    /\ scChunks = <<>>
    /\ scIters = 0
    /\ scPc = "loop"
    /\ IdleColl
    /\ IdleNew
    /\ IdleRetrieve
    /\ IdleChunk
    /\ IdlePipe
    /\ IdlePath
    /\ IdleStore
    /\ IdleColls
    /\ IdleMerge
    /\ IdleLocks

NextSimple ==
    \/ ScReturnEmpty
    \/ ScIterate
    \/ ScReturn

SpecSimple == InitSimple /\ [][NextSimple]_vars

\* C22 (as claimed): each pass through the outer loop of chunk_file strictly
\* advances the start line (so that the call terminates), and a call that
\* has returned for non-empty content has returned at least one chunk.
C22_EachPassAdvances ==
    [][scIters' # scIters => scStart' > scStart]_vars

(***************************************************************************)
(* SimilarityCalculator::optimize_chunks on lists of chunks                *)
(***************************************************************************)
\* sizes around the three thresholds 100, 3000 and 5000
MergeSizes == {50, 99, 100, 2901, 4950}

MergeLangs == {"rust", "go"}

\* the tokens of a chunk's code: equal sets give similarity 1.0, disjoint
\* sets 0.0
MergeTokens == {{"a"}, {"b"}}

MaxMergeChunks == 3

\* a chunk of the list, minus its id
MergeChunkKinds ==
    {[lang |-> l, symbol |-> None, size |-> s, first |-> 0, last |-> 0,
      kw |-> t, sy |-> t, summary |-> FALSE] :
        l \in MergeLangs, s \in MergeSizes, t \in MergeTokens}

\* a list handed to optimize_chunks; the i-th chunk has the id <<"c", i>>
MergeInput(f) ==
    [i \in DOMAIN f |->
        [id |-> <<"c", i>>, lang |-> f[i].lang, symbol |-> f[i].symbol,
         size |-> f[i].size, first |-> f[i].first, last |-> f[i].last,
         kw |-> f[i].kw, sy |-> f[i].sy, summary |-> f[i].summary]]

OptimizeChunks ==
    /\ ocPc = "call"
    /\ ocOut' = optimize_chunks(ocIn)
    /\ ocPc' = "done"
    /\ UNCHANGED <<ocIn, restOfMerge>>

InitMerge ==
    /\ \E n \in 0..MaxMergeChunks : \E f \in [1..n -> MergeChunkKinds] :
          ocIn = MergeInput(f)
    /\ ocOut = <<>>
    /\ ocPc = "call"
    /\ IdleColl
    /\ IdleNew
    /\ IdleRetrieve
    /\ IdleChunk
    /\ IdlePipe
    /\ IdlePath
    /\ IdleStore
    /\ IdleColls
    /\ IdleSimple
    /\ IdleLocks

NextMerge == OptimizeChunks

SpecMerge == InitMerge /\ [][NextMerge]_vars

\* the positions i whose chunk was concatenated with chunk i + 1
MergedAt ==
    {i \in 1..(Len(ocIn) - 1) :
        \E k \in DOMAIN ocOut : ocOut[k].id = ocIn[i].id \o ocIn[i + 1].id}

\* the positions whose chunk was not taken into the chunk before it, and
\* that have a next chunk
CurrentAt == {i \in 1..(Len(ocIn) - 1) : i - 1 \notin MergedAt}

\* every returned chunk is a chunk of the list or the concatenation of two
\* adjacent ones, each chunk of the list is used once, in order
OnlyAdjacentMerges ==
    /\ \A k \in DOMAIN ocOut :
           \/ \E i \in DOMAIN ocIn : ocOut[k].id = ocIn[i].id /\ ocOut[k].size = ocIn[i].size
           \/ \E i \in MergedAt :
                 /\ ocOut[k].id = ocIn[i].id \o ocIn[i + 1].id
                 /\ ocOut[k].size = ocIn[i].size + 1 + ocIn[i + 1].size
    /\ Len(ocOut) = Len(ocIn) - Cardinality(MergedAt)
    /\ \A i \in MergedAt : i + 1 \notin MergedAt

\* C23 (as claimed): a chunk is concatenated with the next chunk exactly
\* when its size is below 100, the next chunk has the same language, and
\* their combined size is below 5000 or their similarity exceeds 0.3; no
\* other two chunks are merged.
C23_MergeUpRule ==
    ocPc = "done" =>
        /\ OnlyAdjacentMerges
        /\ \A i \in CurrentAt :
               i \in MergedAt <=>
                   /\ ocIn[i].size < 100
                   /\ ocIn[i].lang = ocIn[i + 1].lang
                   /\ \/ ocIn[i].size + ocIn[i + 1].size < 5000
                      \/ SimilarityAbove03(ocIn[i], ocIn[i + 1])

\* C23 (amended): a chunk is concatenated with the next chunk exactly when
\* its size is below 100, their combined size is below 5000, and either the
\* combined size is below 3000 or the two have the same language and a
\* similarity above 0.3; no other two chunks are merged.
C23_MergeUpRuleAmended ==
    ocPc = "done" =>
        /\ OnlyAdjacentMerges
        /\ \A i \in CurrentAt :
               i \in MergedAt <=>
                   /\ ocIn[i].size < 100
                   /\ ocIn[i].size + ocIn[i + 1].size < 5000
                   /\ \/ ocIn[i].size + ocIn[i + 1].size < 3000
                      \/ /\ ocIn[i].lang = ocIn[i + 1].lang
                         /\ SimilarityAbove03(ocIn[i], ocIn[i + 1])

\* two chunks of different languages were merged, the second of them being
\* followed by a third chunk that stays as it is
C23_Witness ==
    /\ ocPc = "done"
    /\ \E i \in MergedAt :
           /\ ocIn[i].lang # ocIn[i + 1].lang
           /\ i + 2 \in DOMAIN ocIn
           /\ \E k \in DOMAIN ocOut : ocOut[k].id = ocIn[i + 2].id

(***************************************************************************)
(* chunk_file on the fallback path: the line windows of the result         *)
(***************************************************************************)
\* chunk_file took the branch of fallback_chunking: no parser for the
\* language, or no parse
FallbackPath == ~(has_parser(cfIn.lang) /\ cfIn.tree.parsed)

\* C24 (as claimed): the chunks chunk_file returns on the fallback path are
\* consecutive, disjoint line windows that cover the file: the first starts
\* at line 1, each next one starts after the line the one before it ends
\* at, and the last ends at the last line.
C24_FallbackCoversFile ==
    (cfPc = "done" /\ FallbackPath /\ Len(cfIn.content.lines) > 0) =>
        /\ Len(cfOut) >= 1
        /\ cfOut[1].first = 1
        /\ \A k \in 1..(Len(cfOut) - 1) : cfOut[k + 1].first = cfOut[k].last + 1
        /\ cfOut[Len(cfOut)].last = Len(cfIn.content.lines)

(***************************************************************************)
(* The RwLocks of IndexingPipeline (chunker, index_service, stats) under   *)
(* concurrent process_file tasks and get_stats / reset_stats calls; one    *)
(* action per await point and per guard drop                               *)
(***************************************************************************)
\* concurrent process_file tasks
MaxLockTasks == 2

\* the numbers of batches a file can have
LkBatchCounts == {0, 1, 2}

LkFiles == 1..MaxLockTasks

\* two get_stats calls and one reset_stats call
LkGetters == {MaxLockTasks + 1, MaxLockTasks + 2}

LkResetters == {MaxLockTasks + 3}

LkProcs == LkFiles \cup LkGetters \cup LkResetters

\* stats.write() can be granted: no writer and no reader
StatsFree == lkStatsW = NoHolder /\ lkStatsR = {}

\* process_file: self.chunker.write().await
LkChunkerWrite(p) ==
    /\ p \in LkFiles /\ lkPc[p] = "start"
    /\ lkChunker = NoHolder
    /\ lkChunker' = p
    /\ lkPc' = [lkPc EXCEPT ![p] = "chunking"]
    /\ UNCHANGED <<lkLeft, lkIndex, lkStatsW, lkStatsR, restOfLocks>>

\* the same, with the guard kept after the block
LkChunked_keepGuard(p) ==
    /\ p \in LkFiles /\ lkPc[p] = "chunking"
    /\ lkChunker = p
    /\ \E n \in LkBatchCounts \ {0} :
          /\ lkLeft' = [lkLeft EXCEPT ![p] = n]
          /\ lkPc' = [lkPc EXCEPT ![p] = "embed"]
    /\ UNCHANGED <<lkChunker, lkIndex, lkStatsW, lkStatsR, restOfLocks>>

\* process_file: chunk_file returns and the block ends, dropping the guard;
\* an Err returns, no chunk leads to the statistics, else the first batch
LkChunked(p) ==
    /\ p \in LkFiles /\ lkPc[p] = "chunking"
    /\ lkChunker = p
    /\ lkChunker' = NoHolder
    /\ \/ lkPc' = [lkPc EXCEPT ![p] = "done"] /\ UNCHANGED lkLeft
       \/ \E n \in LkBatchCounts :
             /\ lkLeft' = [lkLeft EXCEPT ![p] = n]
             /\ lkPc' = [lkPc EXCEPT ![p] = IF n = 0 THEN "fileStats" ELSE "embed"]
    /\ UNCHANGED <<lkIndex, lkStatsW, lkStatsR, restOfLocks>>

\* process_chunk_batch: embed_batch(...).await returns Ok or Err
LkEmbed(p) ==
    /\ p \in LkFiles /\ lkPc[p] = "embed"
    /\ \/ lkPc' = [lkPc EXCEPT ![p] = "indexLock"]
       \/ lkPc' = [lkPc EXCEPT ![p] = "done"]
    /\ UNCHANGED <<lkLeft, lkChunker, lkIndex, lkStatsW, lkStatsR, restOfLocks>>

\* process_chunk_batch: self.index_service.write().await
LkIndexWrite(p) ==
    /\ p \in LkFiles /\ lkPc[p] = "indexLock"
    /\ lkIndex = NoHolder
    /\ lkIndex' = p
    /\ lkPc' = [lkPc EXCEPT ![p] = "upsert"]
    /\ UNCHANGED <<lkLeft, lkChunker, lkStatsW, lkStatsR, restOfLocks>>

\* process_chunk_batch: the add_embedding calls of the batch return, all Ok
\* or one of them Err
LkUpsert(p) ==
    /\ p \in LkFiles /\ lkPc[p] = "upsert"
    /\ lkIndex = p
    /\ \/ lkPc' = [lkPc EXCEPT ![p] = "batchStats"]
       \/ lkPc' = [lkPc EXCEPT ![p] = "errStats"]
    /\ UNCHANGED <<lkLeft, lkChunker, lkIndex, lkStatsW, lkStatsR, restOfLocks>>

\* process_chunk_batch: self.stats.write().await, under the index guard
\* (after an Err of add_embedding, or after the loop)
LkBatchStatsWrite(p) ==
    /\ p \in LkFiles /\ lkPc[p] \in {"batchStats", "errStats"}
    /\ lkIndex = p
    /\ StatsFree
    /\ lkStatsW' = p
    /\ lkPc' = [lkPc EXCEPT ![p] = IF lkPc[p] = "errStats" THEN "errReturn" ELSE "batchReturn"]
    /\ UNCHANGED <<lkLeft, lkChunker, lkIndex, lkStatsR, restOfLocks>>

\* process_chunk_batch returns: both guards are dropped; after an Err
\* process_file returns, else it goes to the next batch or the statistics
LkBatchReturn(p) ==
    /\ p \in LkFiles /\ lkPc[p] \in {"batchReturn", "errReturn"}
    /\ lkStatsW = p /\ lkIndex = p
    /\ lkStatsW' = NoHolder
    /\ lkIndex' = NoHolder
    /\ IF lkPc[p] = "errReturn"
         THEN lkPc' = [lkPc EXCEPT ![p] = "done"] /\ UNCHANGED lkLeft
         ELSE /\ lkLeft' = [lkLeft EXCEPT ![p] = @ - 1]
              /\ lkPc' = [lkPc EXCEPT ![p] = IF lkLeft[p] > 1 THEN "embed" ELSE "fileStats"]
    /\ UNCHANGED <<lkChunker, lkStatsR, restOfLocks>>

\* process_file: self.stats.write().await
LkFileStatsWrite(p) ==
    /\ p \in LkFiles /\ lkPc[p] = "fileStats"
    /\ StatsFree
    /\ lkStatsW' = p
    /\ lkPc' = [lkPc EXCEPT ![p] = "fileReturn"]
    /\ UNCHANGED <<lkLeft, lkChunker, lkIndex, lkStatsR, restOfLocks>>

\* process_file returns Ok(()), dropping the guard
LkFileReturn(p) ==
    /\ p \in LkFiles /\ lkPc[p] = "fileReturn"
    /\ lkStatsW = p
    /\ lkStatsW' = NoHolder
    /\ lkPc' = [lkPc EXCEPT ![p] = "done"]
    /\ UNCHANGED <<lkLeft, lkChunker, lkIndex, lkStatsR, restOfLocks>>

\* get_stats: self.stats.read().await
LkGetStats(p) ==
    /\ p \in LkGetters /\ lkPc[p] = "start"
    /\ lkStatsW = NoHolder
    /\ lkStatsR' = lkStatsR \cup {p}
    /\ lkPc' = [lkPc EXCEPT ![p] = "reading"]
    /\ UNCHANGED <<lkLeft, lkChunker, lkIndex, lkStatsW, restOfLocks>>

\* get_stats: clone() and return
LkGetStatsReturn(p) ==
    /\ p \in LkGetters /\ lkPc[p] = "reading"
    /\ lkStatsR' = lkStatsR \ {p}
    /\ lkPc' = [lkPc EXCEPT ![p] = "done"]
    /\ UNCHANGED <<lkLeft, lkChunker, lkIndex, lkStatsW, restOfLocks>>

\* reset_stats: self.stats.write().await
LkResetStats(p) ==
    /\ p \in LkResetters /\ lkPc[p] = "start"
    /\ StatsFree
    /\ lkStatsW' = p
    /\ lkPc' = [lkPc EXCEPT ![p] = "resetting"]
    /\ UNCHANGED <<lkLeft, lkChunker, lkIndex, lkStatsR, restOfLocks>>

\* reset_stats: *stats = default and return
LkResetStatsReturn(p) ==
    /\ p \in LkResetters /\ lkPc[p] = "resetting"
    /\ lkStatsW = p
    /\ lkStatsW' = NoHolder
    /\ lkPc' = [lkPc EXCEPT ![p] = "done"]
    /\ UNCHANGED <<lkLeft, lkChunker, lkIndex, lkStatsR, restOfLocks>>

InitLocks ==
    /\ lkPc = [p \in LkProcs |-> "start"]
    /\ lkLeft = [p \in LkFiles |-> 0]
    /\ lkChunker = NoHolder
    /\ lkIndex = NoHolder
    /\ lkStatsW = NoHolder
    /\ lkStatsR = {}
    /\ IdleColl
    /\ IdleNew
    /\ IdleRetrieve
    /\ IdleChunk
    /\ IdlePipe
    /\ IdlePath
    /\ IdleStore
    /\ IdleColls
    /\ IdleSimple
    /\ IdleMerge

\* the steps of a task or call
LkStep(p) ==
    \/ LkChunkerWrite(p)
    \/ LkChunked(p)
    \/ LkEmbed(p)
    \/ LkIndexWrite(p)
    \/ LkUpsert(p)
    \/ LkBatchStatsWrite(p)
    \/ LkBatchReturn(p)
    \/ LkFileStatsWrite(p)
    \/ LkFileReturn(p)
    \/ LkGetStats(p)
    \/ LkGetStatsReturn(p)
    \/ LkResetStats(p)
    \/ LkResetStatsReturn(p)

NextLocks == \E p \in LkProcs : LkStep(p)

\* the tasks and calls all start together; the runtime keeps polling those
\* that can run, and every embedder and index call returns
SpecLocks ==
    /\ InitLocks
    /\ [][NextLocks]_vars
    /\ WF_vars(NextLocks)

\* the locks a task or call holds
LkHeld(p) ==
    (IF lkChunker = p THEN {"chunker"} ELSE {})
      \cup (IF lkIndex = p THEN {"index_service"} ELSE {})
      \cup (IF lkStatsW = p \/ p \in lkStatsR THEN {"stats"} ELSE {})

\* the lock a task or call is waiting for, if any
LkWanted(p) ==
    IF lkPc[p] = "start" THEN (IF p \in LkFiles THEN {"chunker"} ELSE {"stats"})
    ELSE IF lkPc[p] = "indexLock" THEN {"index_service"}
    ELSE IF lkPc[p] \in {"batchStats", "errStats", "fileStats"} THEN {"stats"}
    ELSE {}

\* one order of the locks: stats is asked for while holding nothing or
\* index_service only, index_service and chunker while holding nothing; the
\* chunker guard is not held at the await of an embedder or index call
LkOrdered ==
    \A p \in LkProcs :
        /\ "stats" \in LkWanted(p) => LkHeld(p) \subseteq {"index_service"}
        /\ "index_service" \in LkWanted(p) => LkHeld(p) = {}
        /\ "chunker" \in LkWanted(p) => LkHeld(p) = {}
        /\ lkPc[p] \in {"embed", "indexLock", "upsert"} => "chunker" \notin LkHeld(p)
        /\ "stats" \in LkHeld(p) => LkWanted(p) = {}

\* every task and call has ended
LkQuiescent == \A p \in LkProcs : lkPc[p] = "done"

\* some task or call can take a step
LkCanRun == \E p \in LkProcs : ENABLED LkStep(p)

\* C26: the locks are taken in one order (index_service before stats, the
\* chunker guard dropped before an embedder or index call is awaited), in
\* no reachable state are all unfinished tasks and calls blocked on a lock,
\* and every process_file task and every get_stats / reset_stats call
\* comes to its end.
C26_NoTaskBlocksForever ==
    /\ [](LkOrdered /\ (LkQuiescent \/ LkCanRun))
    /\ <>LkQuiescent

\* a process_file task holds index_service and waits for stats while a
\* get_stats call holds stats, and the other task waits for index_service
C26_Witness ==
    \E p, q \in LkFiles :
        /\ lkIndex = p /\ lkPc[p] = "batchStats"
        /\ lkPc[q] = "indexLock"
        /\ lkStatsR # {}
        /\ \E r \in LkResetters : lkPc[r] = "start"

(***************************************************************************)
(* Start-up of the retrieval API: IndexService::new with the dimension of  *)
(* LocalEmbedder::new_default                                              *)
(***************************************************************************)
\* LocalEmbedder::new_default().embedding_dimension()
RetrievalApiDim == 768

\* the backend held, at start-up, a collection as an indexer leaves it: it
\* exists and declares the dimension of the indexer's embedder
IndexerMadeColl == initColl.exists /\ initColl.cfg = "params" /\ initColl.dim \in Dims

\* C27 (as claimed): start-up of the retrieval API leaves the index as it
\* is: whatever collection an indexer has produced, with any embedder
\* dimension, the collection is neither deleted nor recreated and every
\* point stored before start-up stays in it.
C27_StartupKeepsIndex ==
    (newDim = RetrievalApiDim /\ IndexerMadeColl) =>
        /\ coll.exists
        /\ coll.dim = initColl.dim
        /\ initColl.points \subseteq coll.points

(***************************************************************************)
(* run_indexer from start_watching to process_events: the initial scan     *)
(* (process_files) runs while the watcher already sends events             *)
(***************************************************************************)
\* number of files the initial scan of the watched directory finds
ScanFiles == 1

\* the pipeline configuration of the scan
ScanConfigs == [batch_size : {2}, max_concurrent_files : {1}]

\* run_indexer: pipeline.start_watching(&watch_path), once, first
RunStartWatching ==
    /\ chan = "none"
    /\ StartWatching

\* run_indexer: pipeline.process_files(initial_files), once, after
\* start_watching and before process_events (skipped without initial files)
RunProcessFiles ==
    /\ receiver = "some"
    /\ nextTask = 0
    /\ ProcessFilesCall
    /\ nextTask' = ScanFiles

\* run_indexer: pipeline.process_events() inside select!, after the scan
RunProcessEvents ==
    /\ receiver = "some"
    /\ PeCall

\* the events the watcher sends during the run: a change of one file, and a
\* change of two files of which the first cannot be read
ScanEvents == {<<FileB>>, <<FileBad, FileB>>}

RunWatcherSend ==
    /\ WatcherSend
    /\ received'[Len(received')] \in ScanEvents

InitScan ==
    /\ coll = FreshColl(384)
    /\ nextPid = 0
    /\ IdleNew
    /\ IdleRetrieve
    /\ IdleChunk
    /\ pcfg \in ScanConfigs
    /\ IdleWork
    /\ IdleEvents
    /\ IdlePath
    /\ IdleStore
    /\ IdleColls
    /\ IdleSimple
    /\ IdleMerge
    /\ IdleLocks

\* the steps of run_indexer after start_watching: the tasks of the scan, the
\* return of process_files, the call of process_events, its steps and those
\* of the process_file it awaits
RunStep ==
    \/ \E w \in Tasks : TaskStep(w) \/ TaskExit(w)
    \/ ProcessFilesReturn
    \/ RunProcessEvents
    \/ PeRecv
    \/ PeNextPath
    \/ PfRead(EventWorker) \/ PfChunk(EventWorker) \/ PfEmbed(EventWorker)
    \/ PfLockIndex(EventWorker) \/ PfUpsert(EventWorker)
    \/ PfBatchDone(EventWorker) \/ PfFinish(EventWorker)
    \/ PeFileDone

NextScan ==
    \/ RunStartWatching
    \/ RunWatcherSend
    \/ WatcherClose
    \/ RunProcessFiles
    \/ \E w \in Tasks : TaskAcquire(w)
    \/ ProcessFileStep
    \/ \E w \in Tasks : TaskPanic(w)
    \/ \E w \in Tasks : TaskExit(w)
    \/ ProcessFilesReturn
    \/ RunProcessEvents
    \/ PeRecv
    \/ PeNextPath
    \/ PeFileDone

\* the runtime keeps polling run_indexer and the tasks of the scan, every
\* embedder and index call returns, and process_events is not cancelled
SpecScan ==
    /\ InitScan
    /\ [][NextScan]_vars
    /\ WF_vars(RunStep)

\* every event sent on the channel is in the hands of process_events or
\* still queued, oldest first
C28_Queued == chan # "none" => received = handled \o queue

\* C28: no event the watcher sends after start_watching is lost: at every
\* moment the events sent are those process_events has taken followed by
\* those still queued, in the order sent, the initial scan included, and
\* whatever is queued is eventually taken by process_events.
C28_NoEventLost ==
    /\ []C28_Queued
    /\ (queue # <<>>) ~> (queue = <<>>)

\* the initial scan is in the middle of a file and two events sent since
\* start_watching wait in the channel, in the order sent
C28_Witness ==
    /\ callPc = "files"
    /\ \E w \in Tasks : wk[w].pc = "upsert"
    /\ Len(queue) >= 2
    /\ handled = <<>>
    /\ queue[1] = <<FileBad, FileB>> /\ queue[2] = <<FileB>>

(***************************************************************************)
(* The chunk_hash of a retrieved chunk                                     *)
(***************************************************************************)
\* the uuids drawn before a step: those counted by nextPid and the point
\* ids of the collection
DrawnUuids == 1..nextPid \cup {p.pid : p \in coll.points}

\* C29: the chunk_hash of a retrieved chunk is the id its chunk was given at
\* indexing time, so that a repeated request returns the same chunk_hash
\* for the same stored point: the search of a request draws no new id, every
\* chunk_hash it returns existed before.
C29_HashFromIndexing ==
    [][(rPc = "search" /\ resp'.status = 200) =>
          \A i \in DOMAIN resp'.chunks : resp'.chunks[i].chunk_hash \in DrawnUuids]_vars

(***************************************************************************)
(* SearchService over the collection IndexingService creates               *)
(***************************************************************************)
\* the collection name of the searches
Codebase == "codebase"

\* the length of the dummy embedding of keyword_search
KeywordDummyLen == 1536

\* an embedding of an embedder of dimension d
EmbeddingOf(d, v) == [i \in 1..d |-> v]

\* the values an embedder fills an embedding with
KwValues == {0, 1}

\* search: Err for an unknown collection or another query length
search_accepts(colls, collection, query_embedding) ==
    /\ collection \in DOMAIN colls
    /\ Len(query_embedding) = colls[collection].dimension

SearchOp(op, ok, query_embedding) ==
    [NoOp EXCEPT !.done = TRUE, !.op = op, !.ok = ok, !.collection = Codebase,
                 !.embedding = query_embedding]

\* IndexingService::new: the collection is created with
\* embedder.embedding_dimension() unless it exists
NewIndexingService ==
    /\ Codebase \notin DOMAIN vcColls
    /\ \E d \in Dims : vcColls' = create_collection(vcColls, Codebase, d)
    /\ vcLast' = NoOp
    /\ UNCHANGED restOfColls

\* index_codebase with reset_existing: delete_collection, then
\* create_collection with the dimension of the same embedder
ResetIndex ==
    /\ Codebase \in DOMAIN vcColls
    /\ vcColls' = create_collection(delete_collection(vcColls, Codebase), Codebase,
                                    vcColls[Codebase].dimension)
    /\ vcLast' = NoOp
    /\ UNCHANGED restOfColls

\* index_codebase: a chunk stored with the embedding of the embedder
IndexChunk ==
    /\ Codebase \in DOMAIN vcColls
    /\ \E chunk \in VcChunks, v \in KwValues :
          LET embedding == EmbeddingOf(vcColls[Codebase].dimension, v)
              r == insert_chunks(vcColls, Codebase,
                                 <<[chunk |-> chunk, embedding |-> embedding]>>)
          IN  /\ vcColls' = r.colls
              /\ vcLast' = [done |-> TRUE, op |-> "insert_chunks", ok |-> r.ok,
                            collection |-> Codebase, chunk_id |-> chunk.id,
                            embedding |-> embedding,
                            before |-> StoredEntry(vcColls, Codebase, chunk.id),
                            earlier |-> {}]
    /\ UNCHANGED restOfColls

\* semantic_search: embedder.embed(query), then store.search
SemanticSearch ==
    /\ Codebase \in DOMAIN vcColls
    /\ \E v \in KwValues :
          LET query_embedding == EmbeddingOf(vcColls[Codebase].dimension, v)
          IN  vcLast' = SearchOp("semantic_search",
                                 search_accepts(vcColls, Codebase, query_embedding),
                                 query_embedding)
    /\ UNCHANGED <<vcColls, restOfColls>>

\* keyword_search: store.search("codebase", &vec![0.0; 1536], ..)? and the
\* scoring of what it returns
KeywordSearch ==
    /\ Codebase \in DOMAIN vcColls
    /\ LET dummy == EmbeddingOf(KeywordDummyLen, 0)
       IN  vcLast' = SearchOp("keyword_search",
                              search_accepts(vcColls, Codebase, dummy), dummy)
    /\ UNCHANGED <<vcColls, restOfColls>>

\* hybrid_search: semantic_search(query)?, then keyword_search(query)?
HybridSearch ==
    /\ Codebase \in DOMAIN vcColls
    /\ \E v \in KwValues :
          LET query_embedding == EmbeddingOf(vcColls[Codebase].dimension, v)
              dummy == EmbeddingOf(KeywordDummyLen, 0)
          IN  IF ~search_accepts(vcColls, Codebase, query_embedding)
                THEN vcLast' = SearchOp("hybrid_search", FALSE, query_embedding)
                ELSE vcLast' = SearchOp("hybrid_search",
                                        search_accepts(vcColls, Codebase, dummy), dummy)
    /\ UNCHANGED <<vcColls, restOfColls>>

NextKeyword ==
    \/ NewIndexingService
    \/ ResetIndex
    \/ IndexChunk
    \/ SemanticSearch
    \/ KeywordSearch
    \/ HybridSearch

SpecKeyword == InitColls /\ [][NextKeyword]_vars

\* C30: whatever the dimension of the embedder the collection was created
\* with, a keyword search and a hybrid search return a result list, never
\* an error.
C30_KeywordSearchReturns ==
    (vcLast.done /\ vcLast.op \in {"keyword_search", "hybrid_search"}) => vcLast.ok

====
